---- MODULE Spec2Model ----
(***************************************************************************)
(* State-machine model of the GoDaddy <-> CyberPanel DNS synchronisation   *)
(* core: SyncManager (sync_manager.py), the registrar client's request     *)
(* layer (gdapi.py) and the sync-log model (models.py).                     *)
(*                                                                         *)
(* A sync run (SyncManager.full_sync) is a process whose position is       *)
(* run[r].pc; it moves at every blocking operation (a registrar call or a  *)
(* local-store read/write), so that overlapping runs interleave there.     *)
(***************************************************************************)
EXTENDS Integers, Sequences, FiniteSets, TLC

VARIABLES
    remote,     \* registrar side: domain -> list of records (dicts)
    zones,      \* local zone store: names of the dns.Domains rows
    records,    \* local zone store: the dns.Records rows
    nextId,     \* auto-increment id of dns.Records
    history,    \* GoDaddyRecordHistory rows, in insertion order
    cache,      \* GoDaddyDomainCache rows of the account: domain -> row
    config,     \* GoDaddyConfig row of the account
    logs,       \* GoDaddySyncLog rows, as persisted: run -> row
    run,        \* per-run process state (locals of full_sync and callees)
    now,        \* timezone.now(), a logical clock
    faults,     \* failures the environment may still inject
    overlap,    \* whether sync runs may overlap (scheduler + manual trigger)
    sent,       \* write requests issued to the registrar, in order
    pushed,     \* outcomes of the push_to_godaddy calls, in order
    classified, \* what the last discover_and_classify_domains call returned
    conflicts,  \* GoDaddyConflictQueue rows
    owner,      \* local zone store: zone name -> admin of the dns.Domains row
    request_count, \* GoDaddyAPI.request_count of each run's client
    deletes,    \* outcomes of the delete_dns_record calls, in order
    cmd,        \* the sync_godaddy_dns command in progress
    invoked     \* what the finished sync_godaddy_dns invocations did

\* The state of the handlers around the sync runs
edge == <<sent, pushed, classified, conflicts>>

\* The state of the callers of the sync core
outer == <<request_count, deletes, cmd, invoked>>

vars == <<remote, zones, records, nextId, history, cache, config, logs, run,
          now, faults, overlap, edge, owner, outer>>

----------------------------------------------------------------------------
(* Bounds of the model *)

MaxRuns == 2        \* sync runs per behaviour
MaxRemote == 2      \* length of a domain's remote record list
MaxLocal == 2       \* local rows of a zone in the initial state
MaxFaults == 1      \* injected failures per behaviour
MaxBatch == 1       \* records per side and domain in the batch scenarios

Runs == 1..MaxRuns

\* Python's None, outside every value domain used here
None == -1

\* The account the SyncManager works for (user_id), and another panel user
UserId == 1
OtherUser == 2
Users == {UserId, OtherUser}

Domains == {"d1", "d2"}
NoDomain == "-"
DomainOrder == <<"d1", "d2">>

----------------------------------------------------------------------------
(* Values *)

\* str.strip() on a string held as a sequence of characters
RECURSIVE LStrip(_)
LStrip(s) == IF s # <<>> /\ Head(s) = " " THEN LStrip(Tail(s)) ELSE s

RECURSIVE RStrip(_)
RStrip(s) ==
    IF s # <<>> /\ s[Len(s)] = " " THEN RStrip(SubSeq(s, 1, Len(s) - 1)) ELSE s

Strip(s) == RStrip(LStrip(s))

\* Python truthiness of an optional integer, and `a or b`
Falsy(x) == x = None \/ x = 0
PyOr(a, b) == IF Falsy(a) THEN b ELSE a

\* dict.get(key, default) on a field that is None when the key is absent
GetOr(x, default) == IF x = None THEN default ELSE x

----------------------------------------------------------------------------
(* Records on both sides *)

\* A record as the registrar returns it; ttl or priority is None when the
\* key is absent from the dict.
GdRec(n, t, d, ttl, prio) ==
    [name |-> n, type |-> t, data |-> d, ttl |-> ttl, priority |-> prio]

\* A dns.Records row
Row(id, zone, n, t, c, ttl, prio) ==
    [id |-> id, zone |-> zone, name |-> n, type |-> t, content |-> c,
     ttl |-> ttl, prio |-> prio]

KeyOf(rec) == <<rec.name, rec.type>>

\* Rows of a set, in id order (the order the default queryset yields them)
RECURSIVE SortById(_)
SortById(S) ==
    IF S = {} THEN <<>>
    ELSE LET m == CHOOSE x \in S : \A y \in S : x.id <= y.id
         IN  <<m>> \o SortById(S \ {m})

RowsOf(d) == {x \in records : x.zone = d}

\* _get_godaddy_records: the list with the NS records filtered out
RECURSIVE FilterGodaddy(_)
FilterGodaddy(recs) ==
    IF recs = <<>> THEN <<>>
    ELSE IF Head(recs).type # "NS"
         THEN <<Head(recs)>> \o FilterGodaddy(Tail(recs))
         ELSE FilterGodaddy(Tail(recs))

\* _get_local_records, the conversion loop: NS and SOA rows are skipped
RECURSIVE ConvertLocal(_)
ConvertLocal(rows) ==
    IF rows = <<>> THEN <<>>
    ELSE IF Head(rows).type \in {"NS", "SOA"}
         THEN ConvertLocal(Tail(rows))
         ELSE <<[id |-> Head(rows).id, name |-> Head(rows).name,
                 type |-> Head(rows).type, data |-> Head(rows).content,
                 ttl |-> Head(rows).ttl, priority |-> Head(rows).prio]>>
              \o ConvertLocal(Tail(rows))

\* _get_local_records: [] when the zone is missing or the read fails
GetLocalRecords(d, readFails) ==
    IF readFails \/ d \notin zones THEN <<>>
    ELSE ConvertLocal(SortById(RowsOf(d)))

\* One entry of a comparison map (_build_record_map, the loop body)
MapEntry(rec, source) ==
    [name |-> rec.name, type |-> rec.type, data |-> rec.data,
     ttl |-> GetOr(rec.ttl, 3600),
     priority |-> IF source = "godaddy" THEN rec.priority
                  ELSE PyOr(rec.priority, None),
     id |-> IF source = "local" THEN rec.id ELSE None]

\* Variant of MapPut: the first entry of a key is kept
MapPutKeepFirst(m, e) ==
    IF \E k \in 1..Len(m) : KeyOf(m[k]) = KeyOf(e) THEN m ELSE Append(m, e)

\* dict assignment record_map[key] = entry on an insertion-ordered dict
MapPut(m, e) ==
    IF \E k \in 1..Len(m) : KeyOf(m[k]) = KeyOf(e)
    THEN [k \in 1..Len(m) |-> IF KeyOf(m[k]) = KeyOf(e) THEN e ELSE m[k]]
    ELSE Append(m, e)

\* _build_record_map
RECURSIVE BuildFrom(_, _, _)
BuildFrom(m, recs, source) ==
    IF recs = <<>> THEN m
    ELSE BuildFrom(MapPut(m, MapEntry(Head(recs), source)), Tail(recs), source)

BuildRecordMap(recs, source) == BuildFrom(<<>>, recs, source)

MapKeys(m) == {KeyOf(m[k]) : k \in 1..Len(m)}
MapGet(m, key) == m[CHOOSE k \in 1..Len(m) : KeyOf(m[k]) = key]

\* _records_differ
RecordsDiffer(g, l) ==
    IF Strip(g.data) # Strip(l.data) THEN TRUE
    ELSE IF g.ttl # l.ttl THEN TRUE
    ELSE IF g.type \in {"MX", "SRV"} /\ g.priority # l.priority THEN TRUE
    ELSE FALSE

----------------------------------------------------------------------------
(* Registrar client *)

\* Outcomes of one HTTP exchange: a status code, or 0 when the transport
\* fails (requests.RequestException: timeout, connection error)
HttpStatuses == {200, 404, 500, 0}

\* Variant of MakeRequest: a 404 answers like an empty success
MakeRequestNotFoundEmpty(status, body) ==
    IF status = 0 THEN [ok |-> FALSE, msg |-> "Network error", body |-> <<>>]
    ELSE IF status = 404 THEN [ok |-> TRUE, msg |-> "", body |-> <<>>]
    ELSE IF status >= 400
    THEN [ok |-> FALSE, msg |-> "API request failed", body |-> <<>>]
    ELSE [ok |-> TRUE, msg |-> "", body |-> body]

\* GoDaddyAPI._make_request: the parsed body, or a GoDaddyAPIException
MakeRequest(status, body) ==
    IF status = 0 THEN [ok |-> FALSE, msg |-> "Network error", body |-> <<>>]
    ELSE IF status = 401
    THEN [ok |-> FALSE, msg |-> "Authentication failed", body |-> <<>>]
    ELSE IF status = 403
    THEN [ok |-> FALSE, msg |-> "Access forbidden", body |-> <<>>]
    ELSE IF status = 404
    THEN [ok |-> FALSE, msg |-> "Resource not found", body |-> <<>>]
    ELSE IF status = 429
    THEN [ok |-> FALSE, msg |-> "Rate limit exceeded", body |-> <<>>]
    ELSE IF status >= 400
    THEN [ok |-> FALSE, msg |-> "API request failed", body |-> <<>>]
    ELSE [ok |-> TRUE, msg |-> "", body |-> body]

\* GoDaddyAPI.get_domain_records: any failure is re-raised as an exception
GetDomainRecords(d, status) ==
    LET resp == MakeRequest(status, remote[d])
    IN  IF resp.ok THEN [ok |-> TRUE, list |-> resp.body]
        ELSE [ok |-> FALSE, list |-> <<>>]

\* Variant of GetGodaddyRecords: a failed fetch yields [] instead of None
GetGodaddyRecordsEmptyOnError(d, status) ==
    LET got == GetDomainRecords(d, status)
    IN  [ok |-> TRUE, list |-> FilterGodaddy(got.list)]

\* SyncManager._get_godaddy_records: None (ok = FALSE) on any exception
GetGodaddyRecords(d, status) ==
    LET got == GetDomainRecords(d, status)
    IN  IF got.ok THEN [ok |-> TRUE, list |-> FilterGodaddy(got.list)]
        ELSE [ok |-> FALSE, list |-> <<>>]

----------------------------------------------------------------------------
(* Sync runs *)

ZeroRes == [created |-> 0, updated |-> 0, deleted |-> 0, conflicts |-> 0,
            errors |-> <<>>]

ZeroTot == [domains_processed |-> 0, records_created |-> 0,
            records_updated |-> 0, records_deleted |-> 0,
            conflicts_resolved |-> 0, errors |-> <<>>]

IdleRun == [pc |-> "idle", arg |-> NoDomain, listed |-> <<>>, queue |-> <<>>,
            cur |-> NoDomain,
            gmap |-> <<>>, lmap |-> <<>>, i |-> 0, res |-> ZeroRes,
            tot |-> ZeroTot, fetched |-> <<>>, done |-> <<>>, exc |-> ""]

Err(kind, d, key) == [kind |-> kind, domain |-> d, key |-> key]

Finished(r) == run[r].pc \in {"returned", "raised"}
Active(r) == run[r].pc \notin {"idle", "returned", "raised", "crashed"}

\* Whether the environment may inject one more failure
FaultOpts == IF faults > 0 THEN {FALSE, TRUE} ELSE {FALSE}
Cost(b) == IF b THEN 1 ELSE 0

\* Variant of NewLog: every log is of type scheduled
NewLogAlwaysScheduled(arg) ==
    [sync_type |-> "scheduled",
     domain_name |-> arg, status |-> "running", domains_processed |-> 0,
     records_created |-> 0, records_updated |-> 0, records_deleted |-> 0,
     conflicts_resolved |-> 0, errors |-> <<>>, error_message |-> "",
     completed_at |-> None]

\* GoDaddySyncLog.objects.create(...) in full_sync
NewLog(arg) ==
    [sync_type |-> IF arg # NoDomain THEN "manual" ELSE "scheduled",
     domain_name |-> arg, status |-> "running", domains_processed |-> 0,
     records_created |-> 0, records_updated |-> 0, records_deleted |-> 0,
     conflicts_resolved |-> 0, errors |-> <<>>, error_message |-> "",
     completed_at |-> None]

\* GoDaddySyncLog.mark_failed
MarkFailed(log, message) ==
    [log EXCEPT !.status = "failed", !.error_message = message,
                !.completed_at = now]

\* Variant of LogWithResults: the error list does not decide the status
LogWithResultsAlwaysCompleted(log, results) ==
    [log EXCEPT !.status = "completed",
                !.domains_processed = results.domains_processed,
                !.records_created = results.records_created,
                !.records_updated = results.records_updated,
                !.records_deleted = results.records_deleted,
                !.conflicts_resolved = results.conflicts_resolved,
                !.errors = results.errors,
                !.completed_at = now]

\* full_sync, the assignments before sync_log.save()
LogWithResults(log, results) ==
    [log EXCEPT !.status = IF results.errors = <<>> THEN "completed"
                           ELSE "partial",
                !.domains_processed = results.domains_processed,
                !.records_created = results.records_created,
                !.records_updated = results.records_updated,
                !.records_deleted = results.records_deleted,
                !.conflicts_resolved = results.conflicts_resolved,
                !.errors = results.errors,
                !.completed_at = now]

\* Variant of EnabledFrom: every cached domain, enabled or not
RECURSIVE EnabledFromAllCached(_)
EnabledFromAllCached(ds) ==
    IF ds = <<>> THEN <<>>
    ELSE IF Head(ds) \in DOMAIN cache
         THEN <<Head(ds)>> \o EnabledFromAllCached(Tail(ds))
         ELSE EnabledFromAllCached(Tail(ds))

\* The sync-enabled domains of the account, in queryset order
RECURSIVE EnabledFrom(_)
EnabledFrom(ds) ==
    IF ds = <<>> THEN <<>>
    ELSE IF Head(ds) \in DOMAIN cache /\ cache[Head(ds)].sync_enabled
         THEN <<Head(ds)>> \o EnabledFrom(Tail(ds))
         ELSE EnabledFrom(Tail(ds))

SyncedDomains == EnabledFrom(DomainOrder)

\* _sync_all_domains, the aggregation of one domain's results
Aggregate(tot, res) ==
    [domains_processed |-> tot.domains_processed + 1,
     records_created |-> tot.records_created + res.created,
     records_updated |-> tot.records_updated + res.updated,
     records_deleted |-> tot.records_deleted + res.deleted,
     conflicts_resolved |-> tot.conflicts_resolved + res.conflicts,
     errors |-> tot.errors \o res.errors]

\* _sync_single_domain's own result dict, as full_sync reads it with .get():
\* it has no domains_processed key
SingleResults(res) ==
    [domains_processed |-> 0, records_created |-> res.created,
     records_updated |-> res.updated, records_deleted |-> res.deleted,
     conflicts_resolved |-> res.conflicts, errors |-> res.errors]

\* Variant of EndDomain: a domain that returned errors ends the loop
EndDomainAbortOnError(s, res) ==
    LET rec == [domain |-> s.cur, res |-> res]
        cleared == [s EXCEPT !.gmap = <<>>, !.lmap = <<>>, !.i = 0,
                             !.res = ZeroRes, !.cur = NoDomain,
                             !.done = Append(s.done, rec)]
    IN  IF s.arg # NoDomain
        THEN [cleared EXCEPT !.pc = "finish", !.tot = SingleResults(res)]
        ELSE IF s.queue = <<>> \/ res.errors # <<>>
        THEN [cleared EXCEPT !.pc = "finish", !.tot = Aggregate(s.tot, res)]
        ELSE [cleared EXCEPT !.pc = "read", !.tot = Aggregate(s.tot, res),
                             !.cur = Head(s.queue), !.queue = Tail(s.queue)]

\* The run state s once _sync_single_domain has returned res for s.cur
EndDomain(s, res) ==
    LET rec == [domain |-> s.cur, res |-> res]
        cleared == [s EXCEPT !.gmap = <<>>, !.lmap = <<>>, !.i = 0,
                             !.res = ZeroRes, !.cur = NoDomain,
                             !.done = Append(s.done, rec)]
    IN  IF s.arg # NoDomain
        THEN [cleared EXCEPT !.pc = "finish", !.tot = SingleResults(res)]
        ELSE IF s.queue = <<>>
        THEN [cleared EXCEPT !.pc = "finish", !.tot = Aggregate(s.tot, res)]
        ELSE [cleared EXCEPT !.pc = "read", !.tot = Aggregate(s.tot, res),
                             !.cur = Head(s.queue), !.queue = Tail(s.queue)]

----------------------------------------------------------------------------
(* Local writes of the reconciler.  Each takes the run state s, and how the *)
(* store behaves: "ok", "first" (the first of its two writes raises) or     *)
(* "second" (the first write is done and the second raises).  Each yields   *)
(* the store after it and the results dict of _sync_records_to_local.       *)

Hist(d, n, t, change) ==
    [domain |-> d, name |-> n, type |-> t, change |-> change,
     source |-> "sync"]

Outcome(recs, nid, hist, res) ==
    [records |-> recs, nextId |-> nid, history |-> hist, res |-> res]

WithError(res, e) == [res EXCEPT !.errors = Append(@, e)]

NoChange(s) == Outcome(records, nextId, history, s.res)

\* Variant of CreateLocalRecord: a failed create is counted as created
CreateLocalRecordCountsFailure(s, g, mode) ==
    LET row == Row(nextId, s.cur, g.name, g.type, g.data, g.ttl, g.priority)
        e == Err("record", s.cur, KeyOf(g))
        counted == [s.res EXCEPT !.created = @ + 1]
    IN  IF mode = "first"
        THEN Outcome(records, nextId, history, WithError(counted, e))
        ELSE IF mode = "second"
        THEN Outcome(records \cup {row}, nextId + 1, history,
                     WithError(counted, e))
        ELSE Outcome(records \cup {row}, nextId + 1,
                     Append(history, Hist(s.cur, g.name, g.type, "created")),
                     counted)

\* _create_local_record and the counting around it
CreateLocalRecord(s, g, mode) ==
    LET row == Row(nextId, s.cur, g.name, g.type, g.data, g.ttl, g.priority)
        e == Err("record", s.cur, KeyOf(g))
    IN  IF mode = "first"
        THEN Outcome(records, nextId, history, WithError(s.res, e))
        ELSE IF mode = "second"
        THEN Outcome(records \cup {row}, nextId + 1, history,
                     WithError(s.res, e))
        ELSE Outcome(records \cup {row}, nextId + 1,
                     Append(history, Hist(s.cur, g.name, g.type, "created")),
                     [s.res EXCEPT !.created = @ + 1])

\* Variant of UpdateLocalRecord: an overwrite is not counted as a conflict
UpdateLocalRecordNoConflict(s, l, g, mode) ==
    LET e == Err("record", s.cur, KeyOf(g))
        hit == {x \in records : x.id = l.id}
        new == {[x EXCEPT !.content = g.data, !.ttl = g.ttl,
                          !.prio = g.priority] : x \in hit}
    IN  IF Falsy(l.id) \/ hit = {} \/ mode = "first"
        THEN Outcome(records, nextId, history, WithError(s.res, e))
        ELSE IF mode = "second"
        THEN Outcome((records \ hit) \cup new, nextId, history,
                     WithError(s.res, e))
        ELSE Outcome((records \ hit) \cup new, nextId,
                     Append(history, Hist(s.cur, g.name, g.type, "updated")),
                     [s.res EXCEPT !.updated = @ + 1])

\* _update_local_record and the counting around it
UpdateLocalRecord(s, l, g, mode) ==
    LET e == Err("record", s.cur, KeyOf(g))
        hit == {x \in records : x.id = l.id}
        new == {[x EXCEPT !.content = g.data, !.ttl = g.ttl,
                          !.prio = g.priority] : x \in hit}
    IN  IF Falsy(l.id) \/ hit = {} \/ mode = "first"
        THEN Outcome(records, nextId, history, WithError(s.res, e))
        ELSE IF mode = "second"
        THEN Outcome((records \ hit) \cup new, nextId, history,
                     WithError(s.res, e))
        ELSE Outcome((records \ hit) \cup new, nextId,
                     Append(history, Hist(s.cur, g.name, g.type, "updated")),
                     [s.res EXCEPT !.updated = @ + 1, !.conflicts = @ + 1])

\* _delete_local_record and the counting around it: the history row is
\* written before the record is deleted
DeleteLocalRecord(s, l, mode) ==
    LET e == Err("delete", s.cur, KeyOf(l))
        hit == {x \in records : x.id = l.id}
        x == CHOOSE x \in hit : TRUE
        h == Hist(x.zone, x.name, x.type, "deleted")
    IN  IF Falsy(l.id) \/ hit = {} \/ mode = "first"
        THEN Outcome(records, nextId, history, WithError(s.res, e))
        ELSE IF mode = "second"
        THEN Outcome(records, nextId, Append(history, h), WithError(s.res, e))
        ELSE Outcome(records \ hit, nextId, Append(history, h),
                     [s.res EXCEPT !.deleted = @ + 1])

\* Variant of ApplyKind: an empty registrar list deletes nothing
ApplyKindKeepOnEmpty(s) ==
    IF s.i <= Len(s.gmap)
    THEN LET g == s.gmap[s.i]
         IN  IF KeyOf(g) \in MapKeys(s.lmap)
             THEN IF RecordsDiffer(g, MapGet(s.lmap, KeyOf(g)))
                  THEN "update" ELSE "same"
             ELSE "create"
    ELSE IF s.gmap # <<>>
            /\ KeyOf(s.lmap[s.i - Len(s.gmap)]) \notin MapKeys(s.gmap)
         THEN "delete" ELSE "keep"

\* What step i of the two loops of _sync_records_to_local does
ApplyKind(s) ==
    IF s.i <= Len(s.gmap)
    THEN LET g == s.gmap[s.i]
         IN  IF KeyOf(g) \in MapKeys(s.lmap)
             THEN IF RecordsDiffer(g, MapGet(s.lmap, KeyOf(g)))
                  THEN "update" ELSE "same"
             ELSE "create"
    ELSE IF KeyOf(s.lmap[s.i - Len(s.gmap)]) \notin MapKeys(s.gmap)
         THEN "delete" ELSE "keep"

ApplyOne(s, mode) ==
    LET kind == ApplyKind(s)
    IN  IF kind = "create" THEN CreateLocalRecord(s, s.gmap[s.i], mode)
        ELSE IF kind = "update"
        THEN UpdateLocalRecord(s, MapGet(s.lmap, KeyOf(s.gmap[s.i])),
                               s.gmap[s.i], mode)
        ELSE IF kind = "delete"
        THEN DeleteLocalRecord(s, s.lmap[s.i - Len(s.gmap)], mode)
        ELSE NoChange(s)

WriteModes(s) ==
    IF faults > 0 /\ ApplyKind(s) \in {"create", "update", "delete"}
    THEN {"ok", "first", "second"} ELSE {"ok"}

----------------------------------------------------------------------------
(* Actions *)

\* full_sync, up to the creation of the sync log.  Runs start in order; they
\* overlap only where the callers let them (overlap).
StartRun(r, arg) ==
    /\ run[r].pc = "idle"
    /\ \A q \in Runs : q < r => run[q].pc # "idle"
    /\ overlap \/ \A q \in Runs : ~Active(q)
    /\ logs' = logs @@ (r :> NewLog(arg))
    /\ now' = now + 1
    /\ run' = [run EXCEPT ![r] = [@ EXCEPT !.pc = "dispatch", !.arg = arg]]
    /\ UNCHANGED <<remote, zones, records, nextId, history, cache, config,
                   faults, overlap, edge, owner, outer>>

\* full_sync: the branch on domain_name; _sync_all_domains up to the
\* evaluation of the queryset, which raises when the store fails
Dispatch(r) ==
    /\ run[r].pc = "dispatch"
    /\ \E fail \in FaultOpts :
        LET s == run[r]
            q == SyncedDomains
        IN  /\ fail => s.arg = NoDomain
            /\ faults' = faults - Cost(fail)
            /\ IF s.arg # NoDomain
               THEN /\ run' = [run EXCEPT ![r] =
                                [s EXCEPT !.pc = "read", !.cur = s.arg]]
                    /\ logs' = logs
               ELSE IF fail
               THEN /\ run' = [run EXCEPT ![r] =
                                [s EXCEPT !.pc = "raised",
                                          !.exc = "database error"]]
                    /\ logs' = [logs EXCEPT ![r] =
                                 MarkFailed(@, "database error")]
               ELSE IF q = <<>>
               THEN /\ run' = [run EXCEPT ![r] = [s EXCEPT !.pc = "finish"]]
                    /\ logs' = logs
               ELSE /\ run' = [run EXCEPT ![r] =
                                [s EXCEPT !.pc = "read", !.cur = Head(q),
                                          !.listed = q, !.queue = Tail(q)]]
                    /\ logs' = logs
    /\ UNCHANGED <<remote, zones, records, nextId, history, cache, config,
                   now, overlap, edge, owner, outer>>

\* _sync_single_domain: both reads, the None check and the two maps
SyncRead(r) ==
    /\ run[r].pc = "read"
    /\ \E status \in HttpStatuses, readFails \in FaultOpts :
        LET s == run[r]
            cost == Cost(status # 200) + Cost(readFails)
            gd == GetGodaddyRecords(s.cur, status)
            local == GetLocalRecords(s.cur, readFails)
            seen == [s EXCEPT !.fetched =
                        Append(@, [domain |-> s.cur, status |-> status])]
        IN  /\ cost <= faults
            /\ readFails => s.cur \in zones
            /\ faults' = faults - cost
            /\ IF ~gd.ok
               THEN run' = [run EXCEPT ![r] = EndDomain(seen,
                              WithError(s.res, Err("fetch", s.cur, <<>>)))]
               ELSE run' = [run EXCEPT ![r] =
                             [seen EXCEPT !.pc = "ensure",
                                 !.gmap = BuildRecordMap(gd.list, "godaddy"),
                                 !.lmap = BuildRecordMap(local, "local")]]
    /\ UNCHANGED <<remote, zones, records, nextId, history, cache, config,
                   logs, now, overlap, edge, owner, outer>>

\* _sync_records_to_local: "Ensure local domain exists"; a failure here
\* leaves the loops out and returns the results with str(e) as an error
EnsureZone(r) ==
    /\ run[r].pc = "ensure"
    /\ \E fail \in FaultOpts :
        LET s == run[r]
            total == Len(s.gmap) + Len(s.lmap)
            on == [s EXCEPT !.pc = IF total = 0 THEN "touch" ELSE "apply",
                            !.i = 1]
        IN  /\ fail => s.cur \notin zones
            /\ faults' = faults - Cost(fail)
            /\ IF s.cur \in zones
               THEN /\ zones' = zones
                    /\ owner' = owner
                    /\ run' = [run EXCEPT ![r] = on]
               ELSE IF fail
               THEN /\ zones' = zones
                    /\ owner' = owner
                    /\ run' = [run EXCEPT ![r] =
                                [s EXCEPT !.pc = "touch",
                                   !.res = WithError(s.res,
                                             Err("local", s.cur, <<>>))]]
               ELSE /\ zones' = zones \cup {s.cur}
                    /\ owner' = owner @@ (s.cur :> UserId)
                    /\ run' = [run EXCEPT ![r] = on]
    /\ UNCHANGED <<remote, records, nextId, history, cache, config, logs,
                   now, overlap, edge, outer>>

\* _sync_records_to_local: one iteration of the create/update loop, then of
\* the delete loop
ApplyRecord(r) ==
    /\ run[r].pc = "apply"
    /\ \E mode \in WriteModes(run[r]) :
        LET s == run[r]
            out == ApplyOne(s, mode)
            last == s.i = Len(s.gmap) + Len(s.lmap)
        IN  /\ faults' = faults - Cost(mode # "ok")
            /\ records' = out.records
            /\ nextId' = out.nextId
            /\ history' = out.history
            /\ run' = [run EXCEPT ![r] =
                        [s EXCEPT !.res = out.res, !.i = s.i + 1,
                                  !.pc = IF last THEN "touch" ELSE "apply"]]
    /\ UNCHANGED <<remote, zones, cache, config, logs, now, overlap, edge, owner, outer>>

\* _sync_single_domain: "Update domain cache", and the return to the caller
\* (for a batch run, the aggregation in _sync_all_domains)
TouchCache(r) ==
    /\ run[r].pc = "touch"
    /\ \E fail \in FaultOpts :
        LET s == run[r]
        IN  /\ fail => s.cur \in DOMAIN cache
            /\ faults' = faults - Cost(fail)
            /\ IF s.cur \notin DOMAIN cache
               THEN /\ cache' = cache
                    /\ run' = [run EXCEPT ![r] = EndDomain(s, s.res)]
               ELSE IF fail
               THEN /\ cache' = cache
                    /\ run' = [run EXCEPT ![r] = EndDomain(s,
                                 WithError(s.res, Err("sync", s.cur, <<>>)))]
               ELSE /\ cache' = [cache EXCEPT ![s.cur].last_synced = now]
                    /\ run' = [run EXCEPT ![r] = EndDomain(s, s.res)]
    /\ UNCHANGED <<remote, zones, records, nextId, history, config, logs,
                   now, overlap, edge, owner, outer>>

\* full_sync: the log's final fields and sync_log.save(); when the save
\* raises, the handler marks the log failed and re-raises
Finish(r) ==
    /\ run[r].pc = "finish"
    /\ \E fail \in FaultOpts :
        LET s == run[r]
            final == LogWithResults(logs[r], s.tot)
        IN  /\ faults' = faults - Cost(fail)
            /\ IF fail
               THEN /\ logs' = [logs EXCEPT ![r] =
                                 MarkFailed(final, "database error")]
                    /\ run' = [run EXCEPT ![r] =
                                [s EXCEPT !.pc = "raised",
                                          !.exc = "database error"]]
               ELSE /\ logs' = [logs EXCEPT ![r] = final]
                    /\ run' = [run EXCEPT ![r] = [s EXCEPT !.pc = "stamp"]]
    /\ UNCHANGED <<remote, zones, records, nextId, history, cache, config,
                   now, overlap, edge, owner, outer>>

\* Variant of Stamp: the run returns without writing last_sync
StampWithoutLastSync(r) ==
    /\ run[r].pc = "stamp"
    /\ run' = [run EXCEPT ![r] = [@ EXCEPT !.pc = "returned"]]
    /\ UNCHANGED <<remote, zones, records, nextId, history, cache, config,
                   logs, now, faults, overlap, edge, owner, outer>>

\* full_sync: "Update last sync timestamp" and the return; config.save()
\* is inside the try block, so when it raises the log, already saved as
\* completed or partial, is marked failed
Stamp(r) ==
    /\ run[r].pc = "stamp"
    /\ \E fail \in FaultOpts :
        LET s == run[r]
        IN  /\ faults' = faults - Cost(fail)
            /\ IF fail
               THEN /\ logs' = [logs EXCEPT ![r] =
                                 MarkFailed(@, "database error")]
                    /\ config' = config
                    /\ run' = [run EXCEPT ![r] =
                                [s EXCEPT !.pc = "raised",
                                          !.exc = "database error"]]
               ELSE /\ logs' = logs
                    /\ config' = [config EXCEPT !.last_sync = now]
                    /\ run' = [run EXCEPT ![r] = [s EXCEPT !.pc = "returned"]]
    /\ UNCHANGED <<remote, zones, records, nextId, history, cache, now,
                   overlap, edge, owner, outer>>

----------------------------------------------------------------------------
(* Initial states *)

\* Record data, as character sequences
DataA == <<"1">>
DataB == <<"9">>
DataPadded == <<" ", "1">>
DataEmpty == <<>>

\* The server's public address, as _get_server_ip reads it for a discovery
ServerIps == {DataA, DataB}

\* No discovery has returned yet
\* What a discovery call left: how it ended, the listing and server address
\* it worked with, the lists it returned, and how many calls there were
Result(state, listing, ip, lists, calls) ==
    [state |-> state, listing |-> listing, ip |-> ip, lists |-> lists,
     calls |-> calls]

NoResult == Result("none", <<>>, <<>>, <<>>, 0)

\* Local rows of zone d made from a list of registrar-shaped seeds
SeedRows(d, seeds, base) ==
    {Row(base + k, d, seeds[k].name, seeds[k].type, seeds[k].data,
         seeds[k].ttl, seeds[k].priority) : k \in 1..Len(seeds)}

\* Lists of at most n elements of S
ListsUpTo(S, n) == UNION {[1..k -> S] : k \in 0..n}

\* The callers' choices of domain_name
Args == Domains \cup {NoDomain}

\* Registrar records and local rows for the batch scenarios
SmallRemote == {GdRec("@", "A", DataA, 3600, None)}

SmallLocal == {GdRec("@", "A", DataB, 3600, 0),
               GdRec("www", "A", DataA, 3600, 0)}

\* Registrar records and local rows for the reconciliation scenarios: every
\* comparable field varies, NS and SOA occur on both sides
RichRemote == {GdRec("@", "A", DataA, 3600, None),
               GdRec("@", "A", DataB, 3600, None),
               GdRec("@", "A", DataPadded, 3600, None),
               GdRec("@", "A", DataA, 600, None),
               GdRec("@", "A", DataA, None, None),
               GdRec("@", "MX", DataA, 3600, 0),
               GdRec("@", "MX", DataA, 3600, 10),
               GdRec("@", "NS", DataA, 3600, None),
               GdRec("@", "SOA", DataA, 3600, None)}

RichLocal == {GdRec("@", "A", DataA, 3600, 0),
              GdRec("@", "A", DataB, 3600, 0),
              GdRec("@", "A", DataA, 600, 0),
              GdRec("@", "MX", DataA, 3600, 0),
              GdRec("@", "MX", DataA, 3600, 10),
              GdRec("@", "NS", DataA, 3600, 0),
              GdRec("@", "SOA", DataA, 3600, 0)}

\* f with d1 mapped to x and every other domain to rest
OnlyD1(x, rest) == [d \in Domains |-> IF d = "d1" THEN x ELSE rest]

CacheRow(b) ==
    [sync_enabled |-> b, last_synced |-> None, hosting_type |-> "unknown",
     points_to_server |-> FALSE, detected_ips |-> <<>>]

\* A GoDaddyConfig row that has never been synced
Config(active, enabled, strategy) ==
    [is_active |-> active, sync_enabled |-> enabled,
     conflict_strategy |-> strategy, last_sync |-> None,
     last_domain_refresh |-> None]

\* No sync_godaddy_dns command is in progress
IdleCmd == [pc |-> "idle", opts |-> <<>>, run |-> 0, seen |-> 0, at |-> 0,
            conf |-> <<>>]

\* The initial states: registrar lists, local zones with their rows and
\* admins, cache rows and config rows are drawn from the given sets
InitFrom(remoteFns, seedFns, cacheFns, configs, admins, nFaults, mayOverlap) ==
    /\ remote \in remoteFns
    /\ \E sd \in seedFns :
        /\ zones = {d \in Domains : sd[d].zone}
        /\ owner \in [{d \in Domains : sd[d].zone} -> admins]
        /\ records = SeedRows("d1", sd["d1"].rows, 0)
                     \cup SeedRows("d2", sd["d2"].rows, Len(sd["d1"].rows))
        /\ nextId = Len(sd["d1"].rows) + Len(sd["d2"].rows) + 1
    /\ history = <<>>
    /\ cache \in cacheFns
    /\ config \in configs
    /\ logs = <<>>
    /\ run = [r \in Runs |-> IdleRun]
    /\ now = 0
    /\ faults = nFaults
    /\ overlap = mayOverlap
    /\ sent = <<>>
    /\ pushed = <<>>
    /\ classified = NoResult
    /\ conflicts = <<>>
    /\ request_count = [r \in Runs |-> 0]
    /\ deletes = <<>>
    /\ cmd = IdleCmd
    /\ invoked = <<>>

\* The initial states of one account whose zones are its own
InitWith(remoteFns, seedFns, cacheFns, strategies, nFaults, mayOverlap) ==
    InitFrom(remoteFns, seedFns, cacheFns,
             {Config(TRUE, TRUE, c) : c \in strategies}, {UserId},
             nFaults, mayOverlap)

\* No two records of the list share a (name, type) key
DistinctKeys(l) ==
    \A j, k \in 1..Len(l) : KeyOf(l[j]) = KeyOf(l[k]) => j = k

\* A zone's initial state: absent, or present with a list of rows, one per
\* (name, type) key (the data model tracks one record per key)
ZoneSeeds(S, n) ==
    {[zone |-> FALSE, rows |-> <<>>]}
    \cup {[zone |-> TRUE, rows |-> l] :
             l \in {x \in ListsUpTo(S, n) : DistinctKeys(x)}}

\* Batch scenarios: two cached domains, failures injected, runs in sequence
Init ==
    InitWith([Domains -> ListsUpTo(SmallRemote, MaxBatch)],
             [Domains -> ZoneSeeds(SmallLocal, MaxBatch)],
             [Domains -> {CacheRow(b) : b \in BOOLEAN}],
             {"godaddy_wins"}, MaxFaults, FALSE)

\* Reconciliation scenarios: one domain with rich records, no failure, runs
\* in sequence
InitRec ==
    InitWith({OnlyD1(l, <<>>) : l \in ListsUpTo(RichRemote, MaxRemote)},
             {OnlyD1(z, [zone |-> FALSE, rows |-> <<>>]) :
                z \in ZoneSeeds(RichLocal, MaxLocal)},
             {OnlyD1(CacheRow(TRUE), CacheRow(FALSE))},
             {"godaddy_wins"}, 0, FALSE)

\* Overlapping runs (a scheduled run and a manual trigger), no failure
InitRace ==
    InitWith({OnlyD1(l, <<>>) : l \in ListsUpTo(SmallRemote, MaxBatch)},
             {OnlyD1(z, [zone |-> FALSE, rows |-> <<>>]) :
                z \in ZoneSeeds(SmallLocal, MaxBatch)},
             {OnlyD1(CacheRow(TRUE), CacheRow(FALSE))},
             {"godaddy_wins"}, 0, TRUE)

Next ==
    \E r \in Runs :
        \/ \E arg \in Args : StartRun(r, arg)
        \/ Dispatch(r)
        \/ SyncRead(r)
        \/ EnsureZone(r)
        \/ ApplyRecord(r)
        \/ TouchCache(r)
        \/ Finish(r)
        \/ Stamp(r)

Spec == Init /\ [][Next]_vars

SpecRec == InitRec /\ [][Next]_vars

SpecRace == InitRace /\ [][Next]_vars

----------------------------------------------------------------------------
(* Registrar client: the write operations *)

MaxPushes == 1      \* push_to_godaddy calls per behaviour
MaxListing == 2     \* entries of the registrar's domain listing
MaxDiscoveries == 1 \* discovery calls per behaviour

\* GoDaddy's minimum TTL
MinTtl == 600

Max(a, b) == IF a >= b THEN a ELSE b

\* Variant of RecordData: the requested ttl goes out as it is
RecordDataUnclamped(type, name, data, ttl, priority) ==
    GdRec(name, type, data, ttl,
          IF priority # None /\ type \in {"MX", "SRV"} THEN priority
          ELSE None)

\* create_dns_record / update_dns_record: the record_data dict
RecordData(type, name, data, ttl, priority) ==
    GdRec(name, type, data, Max(ttl, MinTtl),
          IF priority # None /\ type \in {"MX", "SRV"} THEN priority
          ELSE None)

\* replace_all_records, "Validate TTL values": a record without a ttl key
\* stays without one
ClampAll(recs) ==
    [k \in 1..Len(recs) |->
        IF recs[k].ttl # None
        THEN [recs[k] EXCEPT !.ttl = Max(recs[k].ttl, MinTtl)]
        ELSE recs[k]]

\* One request of a handler outside the sync runs, with the answer's status
Req(method, d, scope, payload, status) ==
    [method |-> method, domain |-> d, scope |-> scope, payload |-> payload,
     status |-> status]

\* The records of a list under /records/{type}/{name}, and the others
Matching(recs, type, name) ==
    SelectSeq(recs, LAMBDA x : x.type = type /\ x.name = name)

NotMatching(recs, type, name) ==
    SelectSeq(recs, LAMBDA x : ~(x.type = type /\ x.name = name))

\* What a client operation did: whether it returned (ok) or raised, the
\* domain's records at the registrar after it, and the requests it made
Done(ok, list, reqs) == [ok |-> ok, list |-> list, reqs |-> reqs]

\* GoDaddyAPI.create_dns_record: PATCH adds the record
CreateDnsRecord(d, type, name, data, ttl, priority, status) ==
    LET payload == <<RecordData(type, name, data, ttl, priority)>>
        resp == MakeRequest(status, <<>>)
        reqs == <<Req("PATCH", d, <<>>, payload, status)>>
    IN  IF resp.ok THEN Done(TRUE, remote[d] \o payload, reqs)
        ELSE Done(FALSE, remote[d], reqs)

\* GoDaddyAPI.update_dns_record: PUT replaces the records of this type/name
UpdateDnsRecord(d, type, name, data, ttl, priority, status) ==
    LET payload == <<RecordData(type, name, data, ttl, priority)>>
        resp == MakeRequest(status, <<>>)
        reqs == <<Req("PUT", d, <<type, name>>, payload, status)>>
    IN  IF resp.ok
        THEN Done(TRUE, NotMatching(remote[d], type, name) \o payload, reqs)
        ELSE Done(FALSE, remote[d], reqs)

\* Variant of DeleteDnsRecord: the PUT is made whether or not records exist
DeleteDnsRecordAlwaysPut(d, type, name, status, status2) ==
    LET get == Req("GET", d, <<type, name>>, <<>>, status)
        put == Req("PUT", d, <<type, name>>, <<>>, status2)
        existing == MakeRequest(status, Matching(remote[d], type, name))
    IN  IF ~existing.ok THEN Done(FALSE, remote[d], <<get>>)
        ELSE IF MakeRequest(status2, <<>>).ok
        THEN Done(TRUE, NotMatching(remote[d], type, name), <<get, put>>)
        ELSE Done(FALSE, remote[d], <<get, put>>)

\* GoDaddyAPI.delete_dns_record: the records are read first; when there are
\* none the call returns without a write, else PUT replaces them with []
DeleteDnsRecord(d, type, name, status, status2) ==
    LET get == Req("GET", d, <<type, name>>, <<>>, status)
        put == Req("PUT", d, <<type, name>>, <<>>, status2)
        existing == MakeRequest(status, Matching(remote[d], type, name))
    IN  IF ~existing.ok THEN Done(FALSE, remote[d], <<get>>)
        ELSE IF existing.body = <<>> THEN Done(TRUE, remote[d], <<get>>)
        ELSE IF MakeRequest(status2, <<>>).ok
        THEN Done(TRUE, NotMatching(remote[d], type, name), <<get, put>>)
        ELSE Done(FALSE, remote[d], <<get, put>>)

\* GoDaddyAPI.replace_all_records
ReplaceAll(d, recs, status) ==
    LET payload == ClampAll(recs)
        reqs == <<Req("PUT", d, <<>>, payload, status)>>
    IN  IF MakeRequest(status, <<>>).ok THEN Done(TRUE, payload, reqs)
        ELSE Done(FALSE, remote[d], reqs)

----------------------------------------------------------------------------
(* Real-time push and the handlers that change the domain cache *)

\* The record changes the callers push: the operation, and a requested ttl
\* (None when the dict has no ttl key)
PushChanges ==
    {[operation |-> op, type |-> "A", name |-> "@", data |-> DataA,
      ttl |-> t, priority |-> None] :
        op \in {"create", "update"}, t \in {None, 300, 3600}}
    \cup {[operation |-> op, type |-> "A", name |-> "@", data |-> DataA,
           ttl |-> None, priority |-> None] : op \in {"delete", "noop"}}

\* Record lists handed to replace_all_records
ReplaceLists ==
    ListsUpTo({GdRec("@", "A", DataA, 300, None),
               GdRec("@", "A", DataA, None, None),
               GdRec("@", "MX", DataA, 3600, 10)}, 1)

\* Variant of PushGate: a cached domain passes, enabled or not
PushGateCachedOnly(d) == d \in DOMAIN cache

\* push_to_godaddy, "Check if this domain is managed by GoDaddy"
PushGate(d) == d \in DOMAIN cache /\ cache[d].sync_enabled

\* Variant of PushCall: an operation that is not known answers True
PushCallUnknownOk(d, change, status, status2) ==
    IF change.operation = "create"
    THEN CreateDnsRecord(d, change.type, change.name, change.data,
                         GetOr(change.ttl, 3600), change.priority, status)
    ELSE IF change.operation = "update"
    THEN UpdateDnsRecord(d, change.type, change.name, change.data,
                         GetOr(change.ttl, 3600), change.priority, status)
    ELSE IF change.operation = "delete"
    THEN DeleteDnsRecord(d, change.type, change.name, status, status2)
    ELSE Done(TRUE, remote[d], <<>>)

\* push_to_godaddy below the gate: the client call for the operation
PushCall(d, change, status, status2) ==
    IF change.operation = "create"
    THEN CreateDnsRecord(d, change.type, change.name, change.data,
                         GetOr(change.ttl, 3600), change.priority, status)
    ELSE IF change.operation = "update"
    THEN UpdateDnsRecord(d, change.type, change.name, change.data,
                         GetOr(change.ttl, 3600), change.priority, status)
    ELSE IF change.operation = "delete"
    THEN DeleteDnsRecord(d, change.type, change.name, status, status2)
    ELSE Done(FALSE, remote[d], <<>>)

\* SyncManager.push_to_godaddy: False for an unknown or disabled domain, for
\* an unknown operation and for any exception of the client
PushToGodaddy(d, change) ==
    /\ Len(pushed) < MaxPushes
    /\ \E status, status2 \in HttpStatuses :
        LET out == IF PushGate(d) THEN PushCall(d, change, status, status2)
                   ELSE Done(FALSE, remote[d], <<>>)
            cost == Cost(status # 200) + Cost(status2 # 200)
        IN  /\ Len(out.reqs) < 2 => status2 = 200
            /\ Len(out.reqs) < 1 => status = 200
            /\ cost <= faults
            /\ faults' = faults - cost
            /\ remote' = [remote EXCEPT ![d] = out.list]
            /\ sent' = sent \o out.reqs
            /\ pushed' = Append(pushed, [domain |-> d, change |-> change,
                                         ret |-> out.ok])
    /\ UNCHANGED <<zones, records, nextId, history, cache, config, logs, run,
                   now, overlap, classified, conflicts, owner, outer>>

\* GoDaddyAPI.replace_all_records, called on the client directly
ReplaceAllRecords(d, recs) ==
    /\ Len(sent) < MaxPushes
    /\ \E status \in HttpStatuses :
        LET out == ReplaceAll(d, recs, status)
        IN  /\ Cost(status # 200) <= faults
            /\ faults' = faults - Cost(status # 200)
            /\ remote' = [remote EXCEPT ![d] = out.list]
            /\ sent' = sent \o out.reqs
    /\ UNCHANGED <<zones, records, nextId, history, cache, config, logs, run,
                   now, overlap, pushed, classified, conflicts, owner,
                   outer>>

\* views.toggle_domain_sync: an unknown domain answers with an error
ToggleDomainSync(d, b) ==
    /\ d \in DOMAIN cache
    /\ cache[d].sync_enabled # b
    /\ cache' = [cache EXCEPT ![d].sync_enabled = b]
    /\ UNCHANGED <<remote, zones, records, nextId, history, config, logs, run,
                   now, faults, overlap, edge, owner, outer>>

\* signals.handle_dns_zone_deleted: the panel has deleted the zone with its
\* records; the handler disables sync for the domain when it is cached, and
\* only logs a failure of that save
ZoneDeleted(d) ==
    /\ d \in zones
    /\ zones' = zones \ {d}
    /\ records' = records \ RowsOf(d)
    /\ \E fail \in FaultOpts :
        /\ fail => d \in DOMAIN cache
        /\ faults' = faults - Cost(fail)
        /\ cache' = IF d \in DOMAIN cache /\ ~fail
                    THEN [cache EXCEPT ![d].sync_enabled = FALSE] ELSE cache
    /\ owner' = [z \in zones \ {d} |-> owner[z]]
    /\ UNCHANGED <<remote, nextId, history, config, logs, run, now, overlap,
                   edge, outer>>

----------------------------------------------------------------------------
(* Domain discovery and classification *)

\* An entry of the registrar's listing that carries no domain name
NoName == ""

ResultTypes == {"server_hosted", "external_hosted", "parked", "errors"}

\* The registrar's answers to GET /domains: entries with distinct names,
\* and entries without a name
Listings ==
    {l \in ListsUpTo(Domains \cup {NoName}, MaxListing) :
        \A j, k \in 1..Len(l) : (l[j] = l[k] /\ l[j] # NoName) => j = k}

\* Variant of AnalyzeARecords: an A record without a value counts as an
\* address that is not the server's
AnalyzeARecordsAnyValue(d, a_records, ip) ==
    LET detected == [k \in 1..Len(a_records) |-> a_records[k].data]
        points == \E k \in 1..Len(detected) : detected[k] = ip
        external == SelectSeq(detected, LAMBDA x : x # ip)
    IN  [domain |-> d,
         type |-> IF points THEN "server_hosted" ELSE "external_hosted",
         hosting_detail |-> IF points
                            THEN IF external # <<>> THEN "mixed" ELSE "full"
                            ELSE "external",
         points_to_server |-> points, detected_ips |-> detected]

\* DomainClassifier._analyze_a_records: records without a value are skipped
AnalyzeARecords(d, a_records, ip) ==
    LET valid == SelectSeq(a_records, LAMBDA x : x.data # DataEmpty)
        detected == [k \in 1..Len(valid) |-> valid[k].data]
        points == \E k \in 1..Len(detected) : detected[k] = ip
        external == SelectSeq(detected, LAMBDA x : x # ip)
    IN  [domain |-> d,
         type |-> IF points THEN "server_hosted"
                  ELSE IF detected # <<>> THEN "external_hosted"
                  ELSE "parked",
         hosting_detail |-> IF points
                            THEN IF external # <<>> THEN "mixed" ELSE "full"
                            ELSE IF detected # <<>> THEN "external"
                            ELSE "no valid A records",
         points_to_server |-> points, detected_ips |-> detected]

\* DomainClassifier._classify_single_domain: a failed record fetch yields a
\* classification of type 'errors'
ClassifySingleDomain(d, status, ip) ==
    LET got == GetDomainRecords(d, status)
        a_records == SelectSeq(got.list, LAMBDA x : x.type = "A")
    IN  IF ~got.ok
        THEN [domain |-> d, type |-> "errors", hosting_detail |-> "error",
              points_to_server |-> FALSE, detected_ips |-> <<>>]
        ELSE IF a_records = <<>>
        THEN [domain |-> d, type |-> "parked",
              hosting_detail |-> "no A records",
              points_to_server |-> FALSE, detected_ips |-> <<>>]
        ELSE AnalyzeARecords(d, a_records, ip)

EmptyLists == [t \in ResultTypes |-> <<>>]

\* Variant of ClassifyAll: a domain that cannot be classified ends the loop
RECURSIVE ClassifyAllStopOnError(_, _, _, _)
ClassifyAllStopOnError(listing, st, ip, acc) ==
    IF listing = <<>> THEN acc
    ELSE IF Head(listing) = NoName
    THEN ClassifyAllStopOnError(Tail(listing), st, ip, acc)
    ELSE LET c == ClassifySingleDomain(Head(listing), st[Head(listing)], ip)
         IN  IF c.type = "errors" THEN [acc EXCEPT ![c.type] = Append(@, c)]
             ELSE ClassifyAllStopOnError(Tail(listing), st, ip,
                                         [acc EXCEPT ![c.type] = Append(@, c)])

\* discover_and_classify_domains, the loop: the result lists
RECURSIVE ClassifyAll(_, _, _, _)
ClassifyAll(listing, st, ip, acc) ==
    IF listing = <<>> THEN acc
    ELSE IF Head(listing) = NoName THEN ClassifyAll(Tail(listing), st, ip, acc)
    ELSE LET c == ClassifySingleDomain(Head(listing), st[Head(listing)], ip)
         IN  ClassifyAll(Tail(listing), st, ip,
                         [acc EXCEPT ![c.type] = Append(@, c)])

\* The domains that have a place in the result lists
InLists(lists) ==
    UNION {{lists[t][k].domain : k \in 1..Len(lists[t])} : t \in ResultTypes}

\* The classification of domain d in the result lists
Found(lists, d) ==
    LET t == CHOOSE t \in ResultTypes :
                \E k \in 1..Len(lists[t]) : lists[t][k].domain = d
    IN  lists[t][CHOOSE k \in 1..Len(lists[t]) : lists[t][k].domain = d]

\* Variant of UpdateDomainCache: a written row starts from the defaults
UpdateDomainCacheFromDefaults(lists, names) ==
    LET written == names \cap InLists(lists)
    IN  [d \in (DOMAIN cache) \cup written |->
        IF d \notin written THEN cache[d]
        ELSE LET c == Found(lists, d)
             IN  [CacheRow(TRUE) EXCEPT !.hosting_type = c.type,
                             !.points_to_server = c.points_to_server,
                             !.detected_ips = c.detected_ips]]

\* Variant of UpdateDomainCache: a new row is enabled only when the domain
\* is hosted on the server
UpdateDomainCacheHostedOnly(lists, names) ==
    LET written == names \cap InLists(lists)
    IN  [d \in (DOMAIN cache) \cup written |->
        IF d \notin written THEN cache[d]
        ELSE LET c == Found(lists, d)
                 row == IF d \in DOMAIN cache THEN cache[d]
                        ELSE CacheRow(c.type = "server_hosted")
             IN  [row EXCEPT !.hosting_type = c.type,
                             !.points_to_server = c.points_to_server,
                             !.detected_ips = c.detected_ips]]

\* DomainClassifier._update_domain_cache for the classified domains of
\* names (it is called in the loop, after the classification): an
\* existing row keeps sync_enabled and last_synced, a new one gets the
\* defaults of GoDaddyDomainCache
UpdateDomainCache(lists, names) ==
    LET written == names \cap InLists(lists)
    IN  [d \in (DOMAIN cache) \cup written |->
        IF d \notin written THEN cache[d]
        ELSE LET c == Found(lists, d)
                 row == IF d \in DOMAIN cache THEN cache[d] ELSE CacheRow(TRUE)
             IN  [row EXCEPT !.hosting_type = c.type,
                             !.points_to_server = c.points_to_server,
                             !.detected_ips = c.detected_ips]]

\* DomainClassifier.discover_and_classify_domains, on a classifier made for
\* the call (its server_ip is read then).  A failed listing raises
\* before any work; a failed cache write is logged and skipped; a failed
\* config.save() raises after the cache has been written.  The zone store is
\* left to the caller.
DiscoverAndClassify ==
    \E listing \in Listings, ip \in ServerIps, listFails \in FaultOpts :
        LET named == {listing[k] : k \in 1..Len(listing)} \ {NoName}
            calls == classified.calls + 1
        IN  IF classified.calls >= MaxDiscoveries THEN FALSE
            ELSE IF listFails
            THEN /\ listing = <<>>
                 /\ faults' = faults - 1
                 /\ classified' = Result("raised", listing, ip, EmptyLists, calls)
                 /\ UNCHANGED <<remote, records, nextId, history, cache,
                                config, logs, run, now, overlap, sent,
                                pushed, conflicts, outer>>
            ELSE \E saveFails \in FaultOpts, cacheFails \in SUBSET named :
                  /\ Cost(saveFails) + Cardinality(cacheFails) <= faults
                  /\ \E st \in [named -> HttpStatuses] :
                      LET lists == ClassifyAll(listing, st, ip, EmptyLists)
                          cost == Cost(saveFails) + Cardinality(cacheFails)
                                  + Cardinality({d \in named : st[d] # 200})
                      IN  /\ cost <= faults
                          /\ faults' = faults - cost
                          /\ cache' = UpdateDomainCache(lists,
                                                        named \ cacheFails)
                          /\ IF saveFails
                             THEN /\ classified' =
                                      Result("raised", listing, ip, EmptyLists, calls)
                                  /\ config' = config
                             ELSE /\ classified' =
                                      Result("returned", listing, ip, lists, calls)
                                  /\ config' = [config EXCEPT
                                                 !.last_domain_refresh = now]
                          /\ UNCHANGED <<remote, records, nextId, history,
                                         logs, run, now, overlap, sent,
                                         pushed, conflicts, outer>>

\* A discovery asked for by the panel user or by the command
Discover == DiscoverAndClassify /\ UNCHANGED <<zones, owner>>

\* signals.handle_dns_zone_created: the panel has created the zone for the
\* user; the handler refreshes the domain cache when the user has an active
\* configuration
ZoneCreated(d) ==
    /\ d \notin zones
    /\ zones' = zones \cup {d}
    /\ owner' = owner @@ (d :> UserId)
    /\ IF config.is_active THEN DiscoverAndClassify
       ELSE UNCHANGED <<remote, records, nextId, history, cache, config, logs,
                        run, now, faults, overlap, edge, outer>>

----------------------------------------------------------------------------
(* The handlers around the sync runs, alone and together with the runs *)

\* Registrar records for the classification scenarios: A records with the
\* server's address, another address and no value, and a record of another
\* type
ClassRemote == {GdRec("@", "A", DataA, 3600, None),
                GdRec("www", "A", DataB, 3600, None),
                GdRec("@", "A", DataEmpty, 3600, None),
                GdRec("@", "MX", DataA, 3600, 10)}

\* Domain caches: every domain is unknown, enabled or disabled
Caches ==
    UNION {[S -> {CacheRow(b) : b \in BOOLEAN}] : S \in SUBSET Domains}

\* A zone without rows, present or absent
BareZones == {[zone |-> z, rows |-> <<>>] : z \in BOOLEAN}

\* Push scenarios: small records, every cache, failures injected
InitPush ==
    InitWith([Domains -> ListsUpTo(SmallRemote, MaxBatch)],
             {OnlyD1(z, [zone |-> FALSE, rows |-> <<>>]) : z \in BareZones},
             Caches, {"godaddy_wins"}, MaxFaults, FALSE)

\* Discovery scenarios: classification records on d1, every cache, failures
\* injected
InitDisc ==
    InitWith({[d \in Domains |-> IF d = "d1" THEN l ELSE m] :
                l \in ListsUpTo(ClassRemote, MaxRemote),
                m \in ListsUpTo(SmallRemote, MaxBatch)},
             {OnlyD1([zone |-> FALSE, rows |-> <<>>],
                     [zone |-> FALSE, rows |-> <<>>])},
             Caches, {"godaddy_wins"}, MaxFaults, FALSE)

\* Sync runs while the cache handlers run: small records, no failure
InitLive ==
    InitWith({OnlyD1(l, <<>>) : l \in ListsUpTo(SmallRemote, MaxBatch)},
             {OnlyD1(z, [zone |-> FALSE, rows |-> <<>>]) :
                z \in ZoneSeeds(SmallLocal, MaxBatch)},
             Caches, {"godaddy_wins"}, 0, FALSE)

\* Conflict scenarios: one domain, every conflict strategy, no failure
Strategies == {"godaddy_wins", "manual", "timestamp"}

InitPolicy ==
    InitWith({OnlyD1(l, <<>>) : l \in ListsUpTo(SmallRemote, MaxBatch)},
             {OnlyD1(z, [zone |-> FALSE, rows |-> <<>>]) :
                z \in ZoneSeeds(SmallLocal, MaxBatch)},
             {OnlyD1(CacheRow(TRUE), CacheRow(FALSE))},
             Strategies, 0, FALSE)

\* The registrar writes
NextPush ==
    \/ \E d \in Domains, change \in PushChanges : PushToGodaddy(d, change)
    \/ \E d \in Domains, recs \in ReplaceLists : ReplaceAllRecords(d, recs)

\* The handlers that change the domain cache
NextCache ==
    \/ \E d \in Domains, b \in BOOLEAN : ToggleDomainSync(d, b)
    \/ \E d \in Domains : ZoneDeleted(d)

SpecPush == InitPush /\ [][NextPush \/ NextCache]_vars

SpecDisc == InitDisc /\ [][Discover]_vars

SpecLive == InitLive /\ [][Next \/ NextCache]_vars

SpecPolicy == InitPolicy /\ [][Next]_vars

----------------------------------------------------------------------------
(* Observations on runs, for the properties below *)

\* Run r is at a step of _sync_records_to_local or just after it
Reconciling(r) == run[r].pc \in {"ensure", "apply", "touch"}

\* The domains run r has reconciled or skipped so far, in order
DoneDomains(r) == [k \in 1..Len(run[r].done) |-> run[r].done[k].domain]

\* Run q returned, and reconciled domain d without error
PassedClean(q, d) ==
    /\ run[q].pc = "returned"
    /\ \E k \in 1..Len(run[q].done) :
        /\ run[q].done[k].domain = d
        /\ run[q].done[k].res.errors = <<>>

ZeroCounts(res) == res.created = 0 /\ res.updated = 0 /\ res.deleted = 0

\* Rows of records' that are not rows of records under another content
Inserted == {x \in records' : \A y \in records : y.id # x.id}

----------------------------------------------------------------------------
(* C1: idempotence.  When the previous run reconciled a domain without     *)
(* error and nothing else wrote in between, a second reconcile of that     *)
(* domain appends no history row, changes no record and counts 0 created,  *)
(* 0 updated, 0 deleted.                                                   *)
C1_SecondRunIsNoOp ==
    [][\A r \in Runs :
        (r > 1 /\ run[r].pc = "apply" /\ PassedClean(r - 1, run[r].cur)
               /\ faults = faults')
        => /\ history' = history
           /\ records' = records
           /\ ZeroCounts(run'[r].res)]_vars

(* C2: NS/SOA exclusion.  No step creates, updates or deletes a local row  *)
(* of type NS or SOA.                                                      *)
C2_NsSoaUntouched ==
    [][{x \in records' : x.type \in {"NS", "SOA"}}
       = {x \in records : x.type \in {"NS", "SOA"}}]_vars

\* The comparable fields of a remote and a local map entry differ: trimmed
\* value, ttl, or for MX/SRV the priority as an integer, absent read as 0
FieldsDiffer(g, l) ==
    \/ Strip(g.data) # Strip(l.data)
    \/ g.ttl # l.ttl
    \/ /\ g.type \in {"MX", "SRV"}
       /\ GetOr(g.priority, 0) # GetOr(l.priority, 0)

(* C3: diff correctness.  After the two loops, with every write having      *)
(* succeeded, created = |R \ L|, deleted = |L \ R| and updated = the number *)
(* of common keys whose comparable fields differ.                           *)
C3_DiffCounts ==
    \A r \in Runs :
        (run[r].pc = "touch" /\ run[r].res.errors = <<>>)
        => LET g == run[r].gmap
               l == run[r].lmap
               both == MapKeys(g) \cap MapKeys(l)
           IN  /\ run[r].res.created = Cardinality(MapKeys(g) \ MapKeys(l))
               /\ run[r].res.deleted = Cardinality(MapKeys(l) \ MapKeys(g))
               /\ run[r].res.updated =
                    Cardinality({k \in both :
                                   FieldsDiffer(MapGet(g, k), MapGet(l, k))})

(* C4: no duplication.  No step inserts a local row whose (name, type) key  *)
(* is already held by a row of the same zone.                               *)
C4_NoDuplicateInsert ==
    [][\A x \in Inserted :
        ~ \E y \in records : y.zone = x.zone /\ KeyOf(y) = KeyOf(x)]_vars

----------------------------------------------------------------------------
\* Some domain's pass in run r returned errors
AnyDomainError(r) ==
    \E k \in 1..Len(run[r].done) : run[r].done[k].res.errors # <<>>

C6_TerminalAbsorbing ==
    [][\A r \in DOMAIN logs :
        logs[r].completed_at # None => logs'[r] = logs[r]]_vars

\* Sum and concatenation over the per-domain results of a run
RECURSIVE SumOf(_, _)
SumOf(done, field) ==
    IF done = <<>> THEN 0
    ELSE Head(done).res[field] + SumOf(Tail(done), field)

RECURSIVE ErrorsOf(_)
ErrorsOf(done) ==
    IF done = <<>> THEN <<>>
    ELSE Head(done).res.errors \o ErrorsOf(Tail(done))

(* C7: cross-domain isolation.  When the loop of a batch run is over, every *)
(* listed domain has been reconciled, whether or not another one returned    *)
(* errors; the totals are the sums of the per-domain counts, and every       *)
(* failing domain has its errors in the run's error list.                    *)
C7_BatchIsolation ==
    \A r \in Runs :
        (run[r].arg = NoDomain /\ run[r].pc \in {"finish", "stamp", "returned"})
        => /\ DoneDomains(r) = run[r].listed
           /\ run[r].tot.domains_processed = Len(run[r].listed)
           /\ run[r].tot.records_created = SumOf(run[r].done, "created")
           /\ run[r].tot.records_updated = SumOf(run[r].done, "updated")
           /\ run[r].tot.records_deleted = SumOf(run[r].done, "deleted")
           /\ run[r].tot.errors = ErrorsOf(run[r].done)
           /\ \A k \in 1..Len(run[r].done) :
                run[r].done[k].res.errors # <<>>
                => \E j \in 1..Len(run[r].tot.errors) :
                     run[r].tot.errors[j].domain = run[r].done[k].domain

\* A batch run whose first domain failed and whose second one was changed
C7_Witness ==
    \E r \in Runs :
        /\ run[r].arg = NoDomain /\ run[r].pc = "returned"
        /\ Len(run[r].done) = 2
        /\ run[r].done[1].res.errors # <<>>
        /\ ~ZeroCounts(run[r].done[2].res)
        /\ ~ZeroCounts([created |-> run[r].tot.records_created,
                        updated |-> run[r].tot.records_updated,
                        deleted |-> run[r].tot.records_deleted])

(* C8: mutual exclusion.  No two runs are inside the reconciliation of the  *)
(* same domain, each with its own snapshot of the local records, at once.   *)
C8_MutualExclusion ==
    \A q, r \in Runs :
        (q # r /\ Reconciling(q) /\ Reconciling(r))
        => run[q].cur # run[r].cur

\* The step is run r's read of its current domain, and the fetch fails
FetchFails(r) ==
    /\ run[r].pc = "read"
    /\ Len(run'[r].fetched) = Len(run[r].fetched) + 1
    /\ run'[r].fetched[Len(run'[r].fetched)].status # 200

LastDone(s) == s.done[Len(s.done)]

(* C9: a failed remote fetch skips the domain.  The step leaves the local   *)
(* store, the history and the cache unchanged and ends the domain with      *)
(* exactly one error and zero counts; and no run fetches a domain twice.    *)
C9_FetchFailureSkips ==
    /\ [][\A r \in Runs :
            FetchFails(r)
            => /\ zones' = zones /\ records' = records
               /\ history' = history /\ cache' = cache
               /\ run'[r].pc \notin {"ensure", "apply", "touch"}
               /\ Len(run'[r].done) = Len(run[r].done) + 1
               /\ LastDone(run'[r]).domain = run[r].cur
               /\ ZeroCounts(LastDone(run'[r]).res)
               /\ LastDone(run'[r]).res.errors
                    = <<Err("fetch", run[r].cur, <<>>)>>]_vars
    /\ [](\A r \in Runs : \A j, k \in 1..Len(run[r].fetched) :
            run[r].fetched[j].domain = run[r].fetched[k].domain => j = k)

\* A batch run in which one domain's fetch failed and the other's did not
C9_Witness ==
    \E r \in Runs :
        /\ run[r].pc = "returned" /\ Len(run[r].fetched) = 2
        /\ \E k \in 1..2 : run[r].fetched[k].status \notin {200, 404}
        /\ \E k \in 1..2 : run[r].fetched[k].status = 200
        /\ \E d \in Domains : RowsOf(d) # {}

\* The k-th fetch of run r answered 404 and that domain's pass is over
NotFoundAt(r, k) ==
    /\ k \in 1..Len(run[r].done)
    /\ run[r].fetched[k].status = 404

(* C10 as stated: a 404 leaves no error entry and the run ends completed.   *)
C10_NotFoundIsBenign ==
    \A r \in Runs : \A k \in 1..Len(run[r].fetched) :
        NotFoundAt(r, k)
        => /\ run[r].done[k].res.errors = <<>>
           /\ run[r].pc = "returned" => logs[r].status = "completed"

(* C10, amended: a 404 is handled like every other fetch failure.  The      *)
(* domain's result holds exactly one error and zero counts, and a run that  *)
(* returns after it ends partial.                                           *)
C10_NotFoundIsFetchError ==
    \A r \in Runs : \A k \in 1..Len(run[r].fetched) :
        NotFoundAt(r, k)
        => /\ run[r].done[k].domain = run[r].fetched[k].domain
           /\ run[r].done[k].res.errors
                = <<Err("fetch", run[r].fetched[k].domain, <<>>)>>
           /\ ZeroCounts(run[r].done[k].res)
           /\ run[r].pc = "returned" => logs[r].status = "partial"

\* A run returned whose only anomaly was a 404
C10_Witness ==
    \E r \in Runs :
        /\ run[r].pc = "returned"
        /\ \E k \in 1..Len(run[r].fetched) : NotFoundAt(r, k)
        /\ logs[r].status = "partial"

----------------------------------------------------------------------------
(* C11: TTL floor.  In every write request sent to the registrar, a record  *)
(* that carries a ttl carries one of at least 600, and a record written by  *)
(* create or update always carries one, whatever ttl was requested.         *)
C11_TtlFloor ==
    \A k \in 1..Len(sent) : \A j \in 1..Len(sent[k].payload) :
        LET rec == sent[k].payload[j]
        IN  /\ rec.ttl # None => rec.ttl >= 600
            /\ (sent[k].method = "PATCH" \/ sent[k].scope # <<>>)
               => rec.ttl # None

\* A push that asked for a ttl of 300 went out with 600 and was accepted
C11_Witness ==
    /\ \E k \in 1..Len(pushed) :
        pushed[k].change.ttl = 300 /\ pushed[k].ret
    /\ \E k \in 1..Len(sent) :
        /\ sent[k].method \in {"PATCH", "PUT"}
        /\ sent[k].status = 200
        /\ sent[k].payload # <<>>
        /\ sent[k].payload[1].ttl = 600

\* The names of a listing, and the place of a domain in the result lists
NamedIn(listing) == {listing[k] : k \in 1..Len(listing)} \ {NoName}

Places(lists, d) ==
    {<<t, k>> \in ResultTypes \X (1..MaxListing) :
        k <= Len(lists[t]) /\ lists[t][k].domain = d}

\* The domains of the last discovery whose records were fetched
Classified ==
    {d \in NamedIn(classified.listing) :
        \E pl \in Places(classified.lists, d) : pl[1] # "errors"}

\* The A records of a domain at the registrar, and their values
ARecordsOf(d) == SelectSeq(remote[d], LAMBDA x : x.type = "A")

AValues(d) == {ARecordsOf(d)[k].data : k \in 1..Len(ARecordsOf(d))}

(* C12 as stated: server_hosted with points_to_server iff some A record's   *)
(* value is the server IP (mixed when other addresses are present), parked  *)
(* iff there is no A record, external_hosted iff there are A records and    *)
(* none has the server IP.                                                  *)
C12_ClassificationRule ==
    classified.state = "returned"
    => \A d \in Classified :
        LET c == Found(classified.lists, d)
            hit == classified.ip \in AValues(d)
        IN  /\ (c.type = "server_hosted" /\ c.points_to_server) <=> hit
            /\ c.type = "parked" <=> ARecordsOf(d) = <<>>
            /\ c.type = "external_hosted"
               <=> (ARecordsOf(d) # <<>> /\ ~hit)
            /\ (c.hosting_detail = "mixed")
               <=> (hit /\ AValues(d) # {classified.ip})

(* C12, amended: only A records that carry a value count.  server_hosted    *)
(* with points_to_server iff some A record's value is the server IP (mixed  *)
(* when other values are present), parked iff no A record carries a value,  *)
(* external_hosted iff some A record carries a value and none has the       *)
(* server IP.                                                               *)
C12_ClassificationRuleValued ==
    classified.state = "returned"
    => \A d \in Classified :
        LET c == Found(classified.lists, d)
            values == AValues(d) \ {DataEmpty}
            hit == classified.ip \in values
        IN  /\ (c.type = "server_hosted" /\ c.points_to_server) <=> hit
            /\ c.points_to_server <=> hit
            /\ c.type = "parked" <=> values = {}
            /\ c.type = "external_hosted" <=> (values # {} /\ ~hit)
            /\ (c.hosting_detail = "mixed")
               <=> (hit /\ values # {classified.ip})

\* A domain whose A records carry no value was classified parked, another
\* discovery result being server_hosted with other addresses present
C12_Witness ==
    /\ classified.state = "returned"
    /\ \E d \in Classified :
        /\ Found(classified.lists, d).type = "parked"
        /\ ARecordsOf(d) # <<>>
    /\ \E d \in Classified :
        Found(classified.lists, d).type \in {"server_hosted",
                                             "external_hosted"}

(* C13: classifier per-domain isolation.  After a discovery that returned,  *)
(* every listed domain is in exactly one place of the result lists, and     *)
(* the lists hold no other domain.                                          *)
C13_OnePlacePerDomain ==
    classified.state = "returned"
    => /\ \A d \in NamedIn(classified.listing) :
            Cardinality(Places(classified.lists, d)) = 1
       /\ \A d \in Domains \ NamedIn(classified.listing) :
            Places(classified.lists, d) = {}
       /\ \A t \in ResultTypes : \A k \in 1..Len(classified.lists[t]) :
            (classified.lists[t][k].type = "errors") <=> (t = "errors")

\* The first listed domain could not be classified and the second one was
C13_Witness ==
    /\ classified.state = "returned"
    /\ Len(classified.listing) = 2
    /\ \E pl \in Places(classified.lists, classified.listing[1]) :
        pl[1] = "errors"
    /\ \E pl \in Places(classified.lists, classified.listing[2]) :
        pl[1] # "errors"

\* The step is a push_to_godaddy call
IsPush == Len(pushed') = Len(pushed) + 1

(* C14: push gating.  A push for a domain that has no cache row, or whose   *)
(* row has sync_enabled false, returns false, sends nothing and changes     *)
(* nothing at the registrar; a push sends a request only for a cached,      *)
(* enabled domain.                                                          *)
C14_PushGating ==
    [][IsPush
       => LET p == pushed'[Len(pushed')]
              managed == /\ p.domain \in DOMAIN cache
                         /\ cache[p.domain].sync_enabled
          IN  /\ ~managed => (~p.ret /\ sent' = sent /\ remote' = remote)
              /\ sent' # sent => managed]_vars

\* A create was pushed for a domain that is not cached, and one for a
\* cached domain that was disabled then
C14_Witness ==
    \E k \in 1..Len(pushed) :
        /\ pushed[k].change.operation = "create"
        /\ ~pushed[k].ret
        /\ sent = <<>>
        /\ pushed[k].domain \in DOMAIN cache
        /\ ~cache[pushed[k].domain].sync_enabled
        /\ \E d \in Domains : d \notin DOMAIN cache

----------------------------------------------------------------------------
\* Rows of records whose fields are changed by the step, and rows it removes
Rewritten == {x \in records : \E y \in records' : y.id = x.id /\ y # x}

Removed == {x \in records : \A y \in records' : y.id # x.id}

\* history is extended by the step, nothing in it is changed
HistoryGrows ==
    /\ Len(history') >= Len(history)
    /\ SubSeq(history', 1, Len(history)) = history

(* C15: history matches mutations one-to-one.  Every step appends exactly   *)
(* one history row for each local row it inserts, rewrites or removes, and  *)
(* none otherwise; rows already in the history stay as they are.            *)
C15_HistoryOneToOne ==
    [][/\ HistoryGrows
       /\ Len(history') - Len(history)
            = Cardinality(Inserted) + Cardinality(Rewritten)
              + Cardinality(Removed)]_vars

(* C16: last_synced gating.  A step writes a domain's last_synced only at   *)
(* the end of a pass over that domain that recorded no error.               *)
C16_LastSyncedOnSuccess ==
    [][\A d \in DOMAIN cache :
        cache'[d].last_synced # cache[d].last_synced
        => \E r \in Runs :
            /\ run[r].cur = d
            /\ run[r].pc = "touch"
            /\ run[r].res.errors = <<>>]_vars

\* The step handles a key that is on both sides with differing fields
HandlesConflict(r) ==
    /\ run[r].pc = "apply"
    /\ run'[r].i = run[r].i + 1
    /\ run[r].i <= Len(run[r].gmap)
    /\ LET g == run[r].gmap[run[r].i]
       IN  /\ KeyOf(g) \in MapKeys(run[r].lmap)
           /\ FieldsDiffer(g, MapGet(run[r].lmap, KeyOf(g)))

(* C17: the conflict policy is honoured.  Under manual review a key that    *)
(* differs on both sides gets a pending conflict queue entry and is not     *)
(* counted as resolved; a local row is overwritten with the remote values   *)
(* only under the remote-wins policy.                                       *)
C17_PolicyHonoured ==
    [][/\ Rewritten # {} => config.conflict_strategy = "godaddy_wins"
       /\ \A r \in Runs :
            (HandlesConflict(r) /\ config.conflict_strategy = "manual")
            => /\ Len(conflicts') = Len(conflicts) + 1
               /\ run'[r].res.conflicts = run[r].res.conflicts]_vars

----------------------------------------------------------------------------
\* The keys of a pass that call for a create, an update or a delete
KeysToApply(g, l) ==
    Cardinality(MapKeys(g) \ MapKeys(l))
    + Cardinality({k \in MapKeys(g) \cap MapKeys(l) :
                     RecordsDiffer(MapGet(g, k), MapGet(l, k))})
    + Cardinality(MapKeys(l) \ MapKeys(g))

Counted(res) == res.created + res.updated + res.deleted

(* C18: per-record failure isolation.  A step of the record loops that      *)
(* fails appends one error, increments no counter and moves on to the next  *)
(* key; when the loops are over every key has been handled: the counters    *)
(* and the error list together account for every key that called for an    *)
(* action.                                                                  *)
C18_RecordIsolation ==
    /\ [][\A r \in Runs :
            (run[r].pc = "apply"
             /\ Len(run'[r].res.errors) > Len(run[r].res.errors))
            => /\ Len(run'[r].res.errors) = Len(run[r].res.errors) + 1
               /\ Counted(run'[r].res) = Counted(run[r].res)
               /\ run'[r].i = run[r].i + 1
               /\ run'[r].pc = IF run[r].i < Len(run[r].gmap)
                                               + Len(run[r].lmap)
                               THEN "apply" ELSE "touch"]_vars
    /\ [](\A r \in Runs :
            (run[r].pc = "touch" /\ run[r].i > 0)
            => /\ run[r].i = Len(run[r].gmap) + Len(run[r].lmap) + 1
               /\ Counted(run[r].res) + Len(run[r].res.errors)
                    = KeysToApply(run[r].gmap, run[r].lmap))

\* A pass in which the create of one key failed and the delete of another
\* key was applied after it
C18_Witness ==
    \E r \in Runs :
        /\ run[r].pc = "touch"
        /\ Len(run[r].res.errors) = 1
        /\ run[r].res.errors[1].kind = "record"
        /\ run[r].res.created = 0
        /\ run[r].res.deleted = 1

----------------------------------------------------------------------------
\* The elements of a sequence
Range(q) == {q[k] : k \in 1..Len(q)}

\* The domains run r has fetched so far, in order
FetchedDomains(r) == [k \in 1..Len(run[r].fetched) |-> run[r].fetched[k].domain]

\* The step is the enumeration of the domains of batch run r
Enumerates(r) ==
    /\ run[r].pc = "dispatch" /\ run[r].arg = NoDomain
    /\ run'[r].pc \in {"read", "finish"}

(* C19: batch scope.  A run without a domain argument lists exactly the     *)
(* domains whose cache row has sync_enabled true when it enumerates them,   *)
(* and when its loop is over it has reconciled each listed domain once and  *)
(* no other domain.                                                         *)
C19_BatchScope ==
    /\ [][\A r \in Runs :
            Enumerates(r)
            => /\ Range(run'[r].listed)
                    = {d \in DOMAIN cache : cache[d].sync_enabled}
               /\ Len(run'[r].listed) = Cardinality(Range(run'[r].listed))]_vars
    /\ [](\A r \in Runs :
            /\ run[r].arg = NoDomain
               => \A k \in 1..Len(run[r].fetched) :
                    /\ k <= Len(run[r].listed)
                    /\ run[r].fetched[k].domain = run[r].listed[k]
            /\ (run[r].arg = NoDomain
                /\ run[r].pc \in {"finish", "stamp", "returned"})
               => /\ FetchedDomains(r) = run[r].listed
                  /\ DoneDomains(r) = run[r].listed)

\* A batch run returned after reconciling a domain that was disabled once
\* the run had enumerated it, while the other domain was never listed
C19_Witness ==
    \E r \in Runs :
        /\ run[r].arg = NoDomain /\ run[r].pc = "returned"
        /\ Len(run[r].listed) = 1
        /\ ~cache[run[r].listed[1]].sync_enabled
        /\ RowsOf(run[r].listed[1]) # {}
        /\ \E d \in DOMAIN cache : d \notin Range(run[r].listed)

\* The step reads from the registrar or writes to the local store
DoesWork ==
    \/ records' # records \/ zones' # zones \/ history' # history
    \/ cache' # cache \/ config' # config
    \/ \E r \in Runs : run'[r].fetched # run[r].fetched

(* C20: log-before-work ordering.  Every started run has exactly one log,   *)
(* of type manual when it was given a domain and scheduled otherwise; the   *)
(* log is in status running before the run has read or written anything,    *)
(* and every step that reads the registrar or writes locally is a step of   *)
(* a run whose log already exists.                                          *)
C20_LogBeforeWork ==
    /\ [](/\ DOMAIN logs = {r \in Runs : run[r].pc # "idle"}
          /\ \A r \in DOMAIN logs :
                /\ logs[r].sync_type = IF run[r].arg # NoDomain
                                       THEN "manual" ELSE "scheduled"
                /\ run[r].pc = "dispatch"
                   => /\ logs[r].status = "running"
                      /\ run[r].fetched = <<>> /\ run[r].done = <<>>)
    /\ [][DoesWork
          => \E r \in DOMAIN logs : run'[r] # run[r]]_vars
    /\ [][\A r \in Runs :
            (run[r].pc = "idle" /\ run'[r].pc # "idle")
            => /\ logs'[r].status = "running"
               /\ ~DoesWork]_vars

\* A manual run and a scheduled run have both returned after writing
C20_Witness ==
    \E q, r \in Runs :
        /\ run[q].pc = "returned" /\ logs[q].sync_type = "manual"
        /\ run[r].pc = "returned" /\ logs[r].sync_type = "scheduled"
        /\ Len(run[r].fetched) > 0
        /\ history # <<>>

----------------------------------------------------------------------------
(* Two panel users on one local zone store *)

\* Shared-store scenarios: the zone of d1 belongs to the account or to the
\* other panel user, the account's cache holds d1, runs may overlap
InitShared ==
    InitFrom({OnlyD1(l, <<>>) : l \in ListsUpTo(SmallRemote, MaxBatch)},
             {OnlyD1(z, [zone |-> FALSE, rows |-> <<>>]) :
                z \in ZoneSeeds(SmallLocal, MaxBatch)},
             {OnlyD1(CacheRow(TRUE), CacheRow(FALSE))},
             {Config(TRUE, TRUE, "godaddy_wins")}, Users, 0, TRUE)

SpecShared == InitShared /\ [][Next]_vars

\* The zones of the other panel user
ForeignZones == {d \in zones : owner[d] # UserId}

(* C21: cross-account isolation.  No step of a sync run of the account      *)
(* creates, changes or removes a zone that belongs to the other panel user  *)
(* or a record of such a zone, even when the account's cache holds the      *)
(* zone's name.  (The cache rows, logs and history rows are reached         *)
(* through the account's own config row only.)                              *)
C21_AccountIsolation ==
    [][\A d \in ForeignZones :
        /\ d \in zones'
        /\ owner'[d] = owner[d]
        /\ {x \in records' : x.zone = d} = RowsOf(d)]_vars

----------------------------------------------------------------------------
\* The step ends run r's pass over its current domain
PassEnds(r) ==
    /\ run[r].pc \in {"read", "touch"}
    /\ Len(run'[r].done) = Len(run[r].done) + 1

\* The records of a list and the rows of a set that take part in the sync
Synced(recs) == SelectSeq(recs, LAMBDA x : x.type \notin {"NS", "SOA"})

SyncedRows(rows) == {x \in rows : x.type \notin {"NS", "SOA"}}

\* Row x carries the value, ttl and (for MX/SRV) priority of remote record g
RowAgrees(x, g) ==
    /\ KeyOf(x) = KeyOf(g)
    /\ Strip(x.content) = Strip(g.data)
    /\ x.ttl = GetOr(g.ttl, 3600)
    /\ x.type \in {"MX", "SRV"} => GetOr(x.prio, 0) = GetOr(g.priority, 0)

(* C22: convergence.  When a pass over a domain ends with an empty error    *)
(* list, the zone's rows other than NS/SOA agree with the registrar's       *)
(* records other than NS/SOA: every row's key occurs remotely, every        *)
(* remote key occurs locally, and every row carries the value, ttl and      *)
(* (for MX/SRV) priority of a remote record with its key.                   *)
C22_Convergence ==
    [][\A r \in Runs :
        (PassEnds(r) /\ LastDone(run'[r]).res.errors = <<>>)
        => LET d == run[r].cur
               rows == SyncedRows({x \in records' : x.zone = d})
               rem == Synced(remote[d])
           IN  /\ \A x \in rows : \E k \in 1..Len(rem) : RowAgrees(x, rem[k])
               /\ \A k \in 1..Len(rem) :
                    \E x \in rows : KeyOf(x) = KeyOf(rem[k])]_vars

----------------------------------------------------------------------------
\* The position of the last record of a list that has the key
LastWith(recs, key) ==
    CHOOSE k \in 1..Len(recs) :
        /\ KeyOf(recs[k]) = key
        /\ \A j \in 1..Len(recs) : KeyOf(recs[j]) = key => j <= k

\* Map m has one entry per key of the list, and each entry holds the fields
\* of the last record that has its key (an absent ttl read as 3600, the
\* priority as an integer with absent read as 0)
KeyedByLast(m, recs) ==
    /\ MapKeys(m) = {KeyOf(recs[k]) : k \in 1..Len(recs)}
    /\ \A j, k \in 1..Len(m) : KeyOf(m[j]) = KeyOf(m[k]) => j = k
    /\ \A j \in 1..Len(m) :
        LET last == recs[LastWith(recs, KeyOf(m[j]))]
        IN  /\ m[j].name = last.name /\ m[j].type = last.type
            /\ m[j].data = last.data
            /\ m[j].ttl = GetOr(last.ttl, 3600)
            /\ GetOr(m[j].priority, 0) = GetOr(last.priority, 0)

(* C23: key uniqueness of _build_record_map.  The maps a pass has built     *)
(* from the registrar's list and from the local list have exactly one       *)
(* entry per (name, type) pair of their input, and an entry holds the       *)
(* fields of the record of its pair that comes last in the input.           *)
C23_KeyUniqueness ==
    \A r \in Runs :
        run[r].pc = "ensure"
        => /\ KeyedByLast(run[r].gmap, FilterGodaddy(remote[run[r].cur]))
           /\ KeyedByLast(run[r].lmap, GetLocalRecords(run[r].cur, FALSE))
           /\ \A j \in 1..Len(run[r].lmap) :
                LET recs == GetLocalRecords(run[r].cur, FALSE)
                IN  run[r].lmap[j].id
                      = recs[LastWith(recs, KeyOf(run[r].lmap[j]))].id

\* A map of one entry built from two records of one key with different
\* values, beside a local map with an entry
C23_Witness ==
    \E r \in Runs :
        /\ run[r].pc = "ensure"
        /\ Len(run[r].gmap) = 1 /\ Len(run[r].lmap) = 1
        /\ LET recs == FilterGodaddy(remote[run[r].cur])
           IN  /\ Len(recs) = 2
               /\ recs[1].data # recs[2].data
               /\ run[r].gmap[1].data = recs[2].data

----------------------------------------------------------------------------
\* The difference test on a registrar record g and a local record l: the
\* trimmed values differ, or the ttls with absent read as 3600, or for MX
\* and SRV the priorities with absent read as 0
ShouldDiffer(g, l) ==
    \/ Strip(g.data) # Strip(l.data)
    \/ GetOr(g.ttl, 3600) # GetOr(l.ttl, 3600)
    \/ /\ g.type \in {"MX", "SRV"}
       /\ GetOr(g.priority, 0) # GetOr(l.priority, 0)

(* C29: difference test.  For every key that a pass finds on both sides,    *)
(* _records_differ on the two map entries is true iff the registrar's       *)
(* record and the local record differ in their trimmed value, in their ttl  *)
(* (absent read as 3600) or, for MX and SRV only, in their priority         *)
(* (absent read as 0).                                                      *)
C29_DifferenceTest ==
    \A r \in Runs :
        run[r].pc = "ensure"
        => LET gd == FilterGodaddy(remote[run[r].cur])
               local == GetLocalRecords(run[r].cur, FALSE)
           IN  \A key \in MapKeys(run[r].gmap) \cap MapKeys(run[r].lmap) :
                 RecordsDiffer(MapGet(run[r].gmap, key),
                               MapGet(run[r].lmap, key))
                 <=> ShouldDiffer(gd[LastWith(gd, key)],
                                  local[LastWith(local, key)])

----------------------------------------------------------------------------
(* C27: call counting.  The call counter of a run's registrar client equals *)
(* the number of requests the run has made through it (one record fetch     *)
(* per domain, answered or not).                                            *)
C27_CallCounting ==
    \A r \in Runs : request_count[r] = Len(run[r].fetched)

----------------------------------------------------------------------------
(* A sync run whose process dies *)

\* The process of run r is killed between two of its blocking operations:
\* nothing it has written is taken back, nothing more is written
Crash(r) ==
    /\ Active(r)
    /\ run' = [run EXCEPT ![r].pc = "crashed"]
    /\ UNCHANGED <<remote, zones, records, nextId, history, cache, config,
                   logs, now, faults, overlap, edge, owner, outer>>

\* Registrar records for a first batch of two records
BatchRemote == {GdRec("@", "A", DataA, 3600, None),
                GdRec("www", "A", DataB, 3600, None)}

\* Crash scenarios: d1 has records at the registrar and no local zone
InitCrash ==
    InitWith({OnlyD1(l, <<>>) : l \in ListsUpTo(BatchRemote, MaxRemote)},
             {OnlyD1([zone |-> FALSE, rows |-> <<>>],
                     [zone |-> FALSE, rows |-> <<>>])},
             [Domains -> {CacheRow(b) : b \in BOOLEAN}],
             {"godaddy_wins"}, 0, FALSE)

SpecCrash == InitCrash /\ [][Next \/ \E r \in Runs : Crash(r)]_vars

\* No run but r has worked on domain d
OnlyToucher(r, d) ==
    \A q \in Runs \ {r} :
        /\ run[q].cur # d
        /\ \A k \in 1..Len(run[q].done) : run[q].done[k].domain # d

(* C30: zone-creation atomicity.  No record is in the store without its     *)
(* zone; and when the process of a run dies during the pass that creates    *)
(* the zone of a domain, the store holds either the zone with a row for     *)
(* every key of the registrar's records, or neither the zone nor any row.   *)
C30_ZoneAtomicity ==
    /\ \A x \in records : x.zone \in zones
    /\ \A r \in Runs :
        (run[r].pc = "crashed" /\ run[r].cur # NoDomain
         /\ OnlyToucher(r, run[r].cur))
        => LET d == run[r].cur
               gd == FilterGodaddy(remote[d])
           IN  \/ d \notin zones /\ RowsOf(d) = {}
               \/ /\ d \in zones
                  /\ \A k \in 1..Len(gd) :
                        \E x \in RowsOf(d) : KeyOf(x) = KeyOf(gd[k])

----------------------------------------------------------------------------
(* Deleting records at the registrar *)

MaxDeletes == 2     \* delete_dns_record calls per behaviour

\* The (type, name) pairs the callers delete
DeleteTargets == {<<"A", "@">>, <<"A", "www">>, <<"MX", "@">>}

\* GoDaddyAPI.delete_dns_record called on a client: what it returned (ok) or
\* that it raised, the domain's records before and after, and its requests
DeleteRecord(d, type, name) ==
    /\ Len(deletes) < MaxDeletes
    /\ \E status, status2 \in HttpStatuses :
        LET out == DeleteDnsRecord(d, type, name, status, status2)
            cost == Cost(status # 200) + Cost(status2 # 200)
        IN  /\ Len(out.reqs) < 2 => status2 = 200
            /\ cost <= faults
            /\ faults' = faults - cost
            /\ remote' = [remote EXCEPT ![d] = out.list]
            /\ sent' = sent \o out.reqs
            /\ deletes' = Append(deletes,
                            [domain |-> d, type |-> type, name |-> name,
                             ok |-> out.ok, before |-> remote[d],
                             after |-> out.list, reqs |-> out.reqs])
    /\ UNCHANGED <<zones, records, nextId, history, cache, config, logs, run,
                   now, overlap, pushed, classified, conflicts, owner,
                   request_count, cmd, invoked>>

\* Registrar records for the delete scenarios: two values under one
\* (type, name), and records under other pairs
DeleteRemote == {GdRec("@", "A", DataA, 3600, None),
                 GdRec("@", "A", DataB, 3600, None),
                 GdRec("www", "A", DataA, 3600, None),
                 GdRec("@", "MX", DataA, 3600, 10)}

InitDelete ==
    InitWith({OnlyD1(l, <<>>) : l \in ListsUpTo(DeleteRemote, MaxRemote)},
             {OnlyD1([zone |-> FALSE, rows |-> <<>>],
                     [zone |-> FALSE, rows |-> <<>>])},
             {OnlyD1(CacheRow(TRUE), CacheRow(FALSE))},
             {"godaddy_wins"}, MaxFaults, FALSE)

SpecDelete ==
    InitDelete
    /\ [][\E d \in Domains, t \in DeleteTargets : DeleteRecord(d, t[1], t[2])]_vars

\* The records of a list that are under the pair of delete call c, the
\* others, and the writes among the requests of c
Under(c, recs) == SelectSeq(recs, LAMBDA x : x.type = c.type /\ x.name = c.name)

Beside(c, recs) ==
    SelectSeq(recs, LAMBDA x : x.type # c.type \/ x.name # c.name)

Writes(c) == SelectSeq(c.reqs, LAMBDA q : q.method # "GET")

\* Every request of delete call c was answered with success
Answered(c) == \A k \in 1..Len(c.reqs) : c.reqs[k].status = 200

(* C28: remote delete is replace-with-empty and idempotent.  A delete that  *)
(* returns ok leaves no record under its (type, name) and every other       *)
(* record in place, its only write being a PUT of the empty list under      *)
(* that pair; when no record is under the pair it returns ok without a      *)
(* write; and the same delete made again right after it returns ok again,   *)
(* writes nothing and leaves the registrar's records as they were.          *)
C28_DeleteIdempotent ==
    /\ \A k \in 1..Len(deletes) :
        LET c == deletes[k]
        IN  /\ c.ok <=> Answered(c)
            /\ c.ok => /\ Under(c, c.after) = <<>>
                       /\ Beside(c, c.after) = Beside(c, c.before)
            /\ ~c.ok => c.after = c.before
            /\ \A j \in 1..Len(Writes(c)) :
                /\ Writes(c)[j].method = "PUT"
                /\ Writes(c)[j].payload = <<>>
                /\ Writes(c)[j].scope = <<c.type, c.name>>
            /\ (c.ok /\ Under(c, c.before) # <<>>) => Len(Writes(c)) = 1
            /\ Under(c, c.before) = <<>> => Writes(c) = <<>>
    /\ \A k \in 1..(Len(deletes) - 1) :
        LET c == deletes[k]
            again == deletes[k + 1]
        IN  (/\ c.ok /\ Answered(again)
             /\ again.domain = c.domain /\ again.type = c.type
             /\ again.name = c.name)
            => /\ again.ok
               /\ again.after = c.after
               /\ Writes(again) = <<>>

\* A delete removed two records under one pair, and the same delete made
\* again returned ok
C28_Witness ==
    /\ Len(deletes) = 2
    /\ deletes[1].ok /\ deletes[2].ok
    /\ Len(Under(deletes[1], deletes[1].before)) = 2
    /\ deletes[2].domain = deletes[1].domain
    /\ deletes[2].type = deletes[1].type
    /\ deletes[2].name = deletes[1].name
    /\ remote[deletes[1].domain] = <<>>

----------------------------------------------------------------------------
(* Zones deleted and created in the panel while runs and pushes go on *)

\* Every cached domain starts enabled and d1 has its zone, so that a domain
\* is disabled only by the deletion of its zone
InitZone ==
    InitWith({OnlyD1(l, <<>>) : l \in ListsUpTo(SmallRemote, MaxBatch)},
             {OnlyD1(z, [zone |-> FALSE, rows |-> <<>>]) :
                z \in {y \in ZoneSeeds(SmallLocal, MaxBatch) : y.zone}},
             {[d \in Domains |-> CacheRow(TRUE)]},
             {"godaddy_wins"}, 0, FALSE)

\* One scheduled batch run, the panel's zone handlers (the server's address
\* is DataA throughout), the explicit toggle and the pushes of one change
ZoneChange ==
    [operation |-> "create", type |-> "A", name |-> "www", data |-> DataB,
     ttl |-> None, priority |-> None]

NextZone ==
    \/ \E r \in {1} :
        \/ StartRun(r, NoDomain)
        \/ Dispatch(r)
        \/ SyncRead(r)
        \/ EnsureZone(r)
        \/ ApplyRecord(r)
        \/ TouchCache(r)
        \/ Finish(r)
        \/ Stamp(r)
    \/ \E d \in Domains : ZoneDeleted(d)
    \/ \E d \in Domains : ZoneCreated(d) /\ classified'.ip = DataA
    \/ \E d \in Domains : ToggleDomainSync(d, TRUE)
    \/ \E d \in Domains : PushToGodaddy(d, ZoneChange)

SpecZone == InitZone /\ [][NextZone]_vars

\* Batch run r takes a step of its pass over domain d
BatchStepOn(r, d) ==
    /\ run[r].arg = NoDomain
    /\ run[r].pc \in {"read", "ensure", "apply", "touch"}
    /\ run[r].cur = d
    /\ run'[r] # run[r]

(* C26: zone deletion disables sync.  The deletion of the zone of a cached  *)
(* domain leaves the domain's cache row in place with sync_enabled false;   *)
(* while it is false, only the explicit toggle sets it to true again (a     *)
(* discovery or the creation of a zone does not), no batch run takes a      *)
(* step of a pass over the domain, and a push for the domain returns false. *)
C26_ZoneDeletionDisablesSync ==
    [][\A d \in DOMAIN cache :
        /\ d \in DOMAIN cache'
        /\ (d \in zones /\ d \notin zones') => ~cache'[d].sync_enabled
        /\ ~cache[d].sync_enabled =>
            /\ cache'[d].sync_enabled => ToggleDomainSync(d, TRUE)
            /\ \A r \in Runs : ~BatchStepOn(r, d)
            /\ (Len(pushed') > Len(pushed)
                /\ pushed'[Len(pushed')].domain = d)
               => ~pushed'[Len(pushed')].ret]_vars

----------------------------------------------------------------------------
(* The sync_godaddy_dns management command *)

MaxCommands == 2    \* invocations of the command per behaviour
MaxNow == 20        \* minutes on the clock
DefaultMaxAge == 15 \* --max-age when the caller gives none

\* The options of an invocation; user_id is None when --user-id is not given
Options ==
    [user_id : {None, UserId, OtherUser}, domain : {NoDomain, "d1"},
     force : BOOLEAN, refresh_domains : BOOLEAN, dry_run : BOOLEAN,
     max_age : {DefaultMaxAge}]

\* Variant of GetConfigsToSync: the recency filter is applied under --force
\* as well
GetConfigsToSyncAlwaysFiltered(opts) ==
    IF /\ config.is_active /\ config.sync_enabled
       /\ opts.user_id \in {None, UserId}
       /\ config.last_sync = None \/ config.last_sync < now - opts.max_age
    THEN {UserId} ELSE {}

\* Command._get_configs_to_sync: the users whose configuration is synced.
\* The model holds the configuration of UserId; OtherUser has none.
GetConfigsToSync(opts) ==
    IF /\ config.is_active /\ config.sync_enabled
       /\ opts.user_id \in {None, UserId}
       /\ \/ opts.force
          \/ config.last_sync = None
          \/ config.last_sync < now - opts.max_age
    THEN {UserId} ELSE {}

\* What an invocation did: its options, when it began, the configuration it
\* found, the run it started (0 when none) and the result it was given
Invocation(c, result) ==
    [opts |-> c.opts, at |-> c.at, conf |-> c.conf, run |-> c.run,
     result |-> result]

\* Command._dry_run_sync: the placeholder
DryRunResult == [given |-> TRUE, tot |-> ZeroTot, dry_run |-> TRUE]

\* No result: no configuration was selected, or full_sync raised
NotGiven == [given |-> FALSE, tot |-> ZeroTot, dry_run |-> FALSE]

\* The run a command that begins now would start: StartRun takes the runs in
\* order
FreeRun == IF \E r \in Runs : run[r].pc = "idle"
           THEN CHOOSE r \in Runs :
                    run[r].pc = "idle" /\ \A q \in Runs : q < r => run[q].pc # "idle"
           ELSE 0

\* Command.handle up to the loop over the configurations
SyncAll(opts) ==
    /\ cmd.pc = "idle"
    /\ Len(invoked) < MaxCommands
    /\ LET c == [pc |-> IF opts.refresh_domains THEN "refresh" ELSE "sync",
                 opts |-> opts, run |-> 0, seen |-> classified.calls,
                 at |-> now, conf |-> config]
       IN  IF GetConfigsToSync(opts) = {}
           THEN /\ invoked' = Append(invoked, Invocation(c, NotGiven))
                /\ cmd' = cmd
           ELSE /\ cmd' = c
                /\ invoked' = invoked
    /\ UNCHANGED <<remote, zones, records, nextId, history, cache, config,
                   logs, run, now, faults, overlap, edge, owner,
                   request_count, deletes>>

\* Command._sync_config: refresh_domain_cache, which is the discovery made
\* while the command waits for it; its failure is only warned about
CmdRefresh ==
    /\ cmd.pc = "refresh"
    /\ classified.calls = cmd.seen
    /\ Discover

CmdRefreshed ==
    /\ cmd.pc = "refresh"
    /\ classified.calls > cmd.seen
    /\ cmd' = [cmd EXCEPT !.pc = "sync"]
    /\ UNCHANGED <<remote, zones, records, nextId, history, cache, config,
                   logs, run, now, faults, overlap, edge, owner,
                   request_count, deletes, invoked>>

\* Command._sync_config under --dry-run: _dry_run_sync
CmdDryRun ==
    /\ cmd.pc = "sync"
    /\ cmd.opts.dry_run
    /\ invoked' = Append(invoked, Invocation(cmd, DryRunResult))
    /\ cmd' = IdleCmd
    /\ UNCHANGED <<remote, zones, records, nextId, history, cache, config,
                   logs, run, now, faults, overlap, edge, owner,
                   request_count, deletes>>

\* Command._perform_sync: SyncManager(config.user_id).full_sync(domain)
CmdPerform ==
    /\ cmd.pc = "sync"
    /\ ~cmd.opts.dry_run
    /\ FreeRun # 0
    /\ cmd' = [cmd EXCEPT !.pc = "start", !.run = FreeRun]
    /\ UNCHANGED <<remote, zones, records, nextId, history, cache, config,
                   logs, run, now, faults, overlap, edge, owner,
                   request_count, deletes, invoked>>

CmdStart(r) ==
    /\ cmd.pc = "start"
    /\ r = cmd.run
    /\ StartRun(r, cmd.opts.domain)

\* Command.handle: full_sync has returned its results or raised
CmdReturn ==
    /\ cmd.pc = "start"
    /\ Finished(cmd.run)
    /\ invoked' = Append(invoked,
                    Invocation(cmd,
                        IF run[cmd.run].pc = "returned"
                        THEN [given |-> TRUE, tot |-> run[cmd.run].tot,
                              dry_run |-> FALSE]
                        ELSE NotGiven))
    /\ cmd' = IdleCmd
    /\ UNCHANGED <<remote, zones, records, nextId, history, cache, config,
                   logs, run, now, faults, overlap, edge, owner,
                   request_count, deletes>>

\* Time passes between two invocations: a minute less or a minute more than
\* the default --max-age
Tick ==
    /\ cmd.pc = "idle"
    /\ invoked # <<>>
    /\ \E m \in {DefaultMaxAge - 1, DefaultMaxAge + 1} :
        /\ now + m <= MaxNow
        /\ now' = now + m
    /\ UNCHANGED <<remote, zones, records, nextId, history, cache, config,
                   logs, run, faults, overlap, edge, owner, outer>>

\* One account in every state of is_active and sync_enabled, one domain
\* with a record at the registrar, no failure
InitCmd ==
    InitFrom({OnlyD1(<<r>>, <<>>) : r \in SmallRemote},
             {OnlyD1([zone |-> FALSE, rows |-> <<>>],
                     [zone |-> FALSE, rows |-> <<>>])},
             {OnlyD1(CacheRow(TRUE), CacheRow(FALSE))},
             {Config(a, e, "godaddy_wins") : a, e \in BOOLEAN}, {UserId},
             0, FALSE)

\* The command's steps, the steps of the runs it starts and the clock; the
\* registrar lists d1 and the server's address is DataA
NextCmd ==
    \/ \E opts \in Options : SyncAll(opts)
    \/ CmdRefresh /\ classified'.listing = <<"d1">> /\ classified'.ip = DataA
    \/ CmdRefreshed
    \/ CmdDryRun
    \/ CmdPerform
    \/ \E r \in Runs :
        \/ CmdStart(r)
        \/ Dispatch(r)
        \/ SyncRead(r)
        \/ EnsureZone(r)
        \/ ApplyRecord(r)
        \/ TouchCache(r)
        \/ Finish(r)
        \/ Stamp(r)
    \/ CmdReturn
    \/ Tick

SpecCmd == InitCmd /\ [][NextCmd]_vars

\* The invocation found the account synced less than --max-age minutes ago
Recent(c) ==
    /\ c.conf.last_sync # None
    /\ c.at - c.conf.last_sync < c.opts.max_age

\* The invocation found the account active and sync-enabled, and within its
\* --user-id
Eligible(c) ==
    /\ c.conf.is_active /\ c.conf.sync_enabled
    /\ c.opts.user_id \in {None, UserId}

(* C24: recency skip.  An invocation without --force starts no run when it  *)
(* finds the account synced less than --max-age minutes ago; an invocation  *)
(* with --force and without --dry-run starts a run for the active,          *)
(* sync-enabled account whatever its last_sync; an inactive or              *)
(* sync-disabled account is given no run; and every run was started by an   *)
(* invocation.                                                              *)
C24_RecencySkip ==
    /\ \A k \in 1..Len(invoked) :
        LET c == invoked[k]
        IN  /\ (~c.opts.force /\ Recent(c)) => c.run = 0
            /\ (c.opts.force /\ ~c.opts.dry_run /\ Eligible(c))
               => c.run \in DOMAIN logs
            /\ (~c.conf.is_active \/ ~c.conf.sync_enabled) => c.run = 0
    /\ cmd.pc # "idle" => cmd.opts.force \/ ~Recent(cmd)
    /\ \A r \in DOMAIN logs :
        r = cmd.run \/ \E k \in 1..Len(invoked) : invoked[k].run = r

\* A first invocation synced the account; a second one, fourteen minutes
\* later and without --force, started no run, and a forced one would have
C24_Witness ==
    /\ Len(invoked) = 2
    /\ invoked[1].run = 1 /\ run[1].pc = "returned"
    /\ ~invoked[2].opts.force /\ ~invoked[2].opts.dry_run
    /\ Eligible(invoked[2]) /\ Recent(invoked[2])
    /\ invoked[2].at - invoked[2].conf.last_sync = DefaultMaxAge - 1
    /\ invoked[2].run = 0
    /\ DOMAIN logs = {1}

\* A dry-run invocation is in progress
DryRunning == cmd.pc # "idle" /\ cmd.opts.dry_run

(* C25: dry run makes no changes.  No step of an invocation with --dry-run  *)
(* creates a sync log or a history row or changes a local record, a domain  *)
(* cache row or the account's last_sync and last_domain_refresh, and the    *)
(* result it is given has every counter 0.                                  *)
C25_DryRunNoChanges ==
    [][/\ DryRunning => UNCHANGED <<logs, history, zones, records, cache,
                                    config>>
       /\ \A k \in 1..Len(invoked') :
            invoked'[k].opts.dry_run
            => /\ invoked'[k].run = 0
               /\ invoked'[k].result.given
                  => invoked'[k].result.tot = ZeroTot]_vars

----------------------------------------------------------------------------
(* Further properties of discovery, reconciliation, pushes and the command *)

\* The choices of GoDaddyDomainCache.hosting_type
HostingTypes == {"server_hosted", "external_hosted", "parked", "unknown"}

(* C31: hosting classification is a closed enum.  In every reachable state  *)
(* the hosting_type of every domain cache row is one of server_hosted,      *)
(* external_hosted, parked and unknown, also after a discovery in which the *)
(* fetch of the domain's records failed.                                    *)
C31_HostingEnum ==
    \A d \in DOMAIN cache : cache[d].hosting_type \in HostingTypes

(* C32: the conflict counter equals the update counter.  In the result of   *)
(* every pass over a domain, in the totals of every run and in every sync   *)
(* log, conflicts_resolved = records_updated; and a step of a run raises    *)
(* the one exactly when it raises the other, by one, which is when it       *)
(* counts an overwrite of a differing local record.                         *)
C32_ConflictsEqualUpdates ==
    /\ \A r \in Runs :
        /\ run[r].res.conflicts = run[r].res.updated
        /\ run[r].tot.conflicts_resolved = run[r].tot.records_updated
        /\ \A k \in 1..Len(run[r].done) :
            run[r].done[k].res.conflicts = run[r].done[k].res.updated
        /\ run[r].pc = "apply" =>
            (\A mode \in WriteModes(run[r]) :
                LET out == ApplyOne(run[r], mode)
                IN  /\ out.res.conflicts = out.res.updated
                    /\ out.res.updated > run[r].res.updated
                       <=> (ApplyKind(run[r]) = "update" /\ mode = "ok"
                            /\ out.records # records))
    /\ \A r \in DOMAIN logs :
        logs[r].conflicts_resolved = logs[r].records_updated

\* A batch run has overwritten a differing local record and its log is saved
C32_Witness ==
    \E r \in DOMAIN logs :
        /\ logs[r].status = "completed"
        /\ logs[r].records_updated = 1
        /\ logs[r].conflicts_resolved = 1
        /\ \E k \in 1..Len(history) : history[k].change = "updated"

\* Registrar lists that reconcile as empty (no record, or NS records only),
\* and one that does not; rich local zones; failures injected
InitEmpty ==
    InitWith({OnlyD1(l, <<>>) :
                l \in ListsUpTo({GdRec("@", "NS", DataA, 3600, None),
                                 GdRec("@", "A", DataA, 3600, None)}, 1)},
             {OnlyD1(z, [zone |-> FALSE, rows |-> <<>>]) :
                z \in ZoneSeeds(RichLocal, MaxLocal)},
             {OnlyD1(CacheRow(TRUE), CacheRow(FALSE))},
             {"godaddy_wins"}, MaxFaults, FALSE)

SpecEmpty == InitEmpty /\ [][Next]_vars

\* The rows of zone d that take part in the sync
Syncable(d) == {x \in RowsOf(d) : x.type \notin {"NS", "SOA"}}

\* The registrar answered the fetch of run r's current pass with success and
\* nothing is left of the list after the NS filter
EmptyFetch(r) ==
    /\ run[r].pc \in {"ensure", "apply", "touch"}
    /\ run[r].gmap = <<>>

\* Run r's fetch for its current domain fails in this step
FetchFailsNow(r) ==
    /\ run[r].pc = "read"
    /\ Len(run'[r].fetched) = Len(run[r].fetched) + 1
    /\ run'[r].fetched[Len(run'[r].fetched)].status # 200

AgedRows ==
    {[CacheRow(b) EXCEPT !.last_synced = t] : b \in BOOLEAN, t \in {None, 0}}

\* Discovery over caches whose rows carry both fields in every state
InitFrame ==
    InitWith({[d \in Domains |-> IF d = "d1" THEN l ELSE m] :
                l \in ListsUpTo(ClassRemote, MaxBatch),
                m \in ListsUpTo(SmallRemote, MaxBatch)},
             {OnlyD1([zone |-> FALSE, rows |-> <<>>],
                     [zone |-> FALSE, rows |-> <<>>])},
             UNION {[S -> AgedRows] : S \in SUBSET Domains},
             {"godaddy_wins"}, MaxFaults, FALSE)

SpecFrame == InitFrame /\ [][Discover]_vars

(* C34: discovery frame.  A discovery leaves every cache row that exists in *)
(* place, also the row of a domain the registrar no longer lists, and does  *)
(* not change its sync_enabled or its last_synced; the cache holds one row  *)
(* per domain of the account, being keyed by the domain name.               *)
C34_DiscoveryFrame ==
    [][\A d \in DOMAIN cache :
        /\ d \in DOMAIN cache'
        /\ cache'[d].sync_enabled = cache[d].sync_enabled
        /\ cache'[d].last_synced = cache[d].last_synced]_vars

\* A discovery has classified a disabled, already synced domain and the row
\* of a domain that is not in the listing is still there
C34_Witness ==
    /\ classified.state = "returned"
    /\ \E d \in DOMAIN cache :
        /\ \E k \in 1..Len(classified.listing) : classified.listing[k] = d
        /\ cache[d].hosting_type # "unknown"
        /\ ~cache[d].sync_enabled
        /\ cache[d].last_synced = 0
    /\ \E d \in DOMAIN cache :
        /\ \A k \in 1..Len(classified.listing) : classified.listing[k] # d
        /\ cache[d].hosting_type = "unknown"

(* C35: domains_processed counts the reconciled domains.  For every run     *)
(* whose log is completed or partial, the log's domains_processed and the   *)
(* value returned to the caller equal the number of domains the run has     *)
(* passed over: the number of enabled domains it listed for a batch run, 1  *)
(* for a run of one named domain.                                           *)
C35_DomainsProcessed ==
    \A r \in DOMAIN logs :
        logs[r].status \in {"completed", "partial"}
        => /\ logs[r].domains_processed = Len(run[r].done)
           /\ run[r].tot.domains_processed = Len(run[r].done)
           /\ Len(run[r].done) = IF run[r].arg = NoDomain
                                 THEN Len(run[r].listed) ELSE 1

\* Domain d may be synced for the account: it is cached and enabled
SyncAllowed(d) == d \in DOMAIN cache /\ cache[d].sync_enabled

\* The local writes of a step that concern domain d
TouchesZone(d) ==
    \/ (d \in zones') # (d \in zones)
    \/ {x \in records' : x.zone = d} # RowsOf(d)

(* C36: disabled domains are never touched.  No step of a run, batch or of  *)
(* one named domain, creates the zone or creates, updates or deletes a row  *)
(* of a domain that is not cached for the account or whose cache row has    *)
(* sync_enabled false.                                                      *)
C36_DisabledUntouched ==
    [][\A d \in Domains :
        (~SyncAllowed(d) /\ \E r \in Runs : run'[r] # run[r])
        => ~TouchesZone(d)]_vars

\* Plain invocations: no --force, no --dry-run, no --refresh-domains; all
\* domains or d1 alone
PlainOptions ==
    [user_id : {None}, domain : {NoDomain, "d1"}, force : {FALSE},
     refresh_domains : {FALSE}, dry_run : {FALSE}, max_age : {DefaultMaxAge}]

\* One active, enabled account that has never been synced; failures injected
InitRetry ==
    InitFrom({OnlyD1(<<r>>, <<>>) : r \in SmallRemote},
             {OnlyD1([zone |-> FALSE, rows |-> <<>>],
                     [zone |-> FALSE, rows |-> <<>>])},
             {OnlyD1(CacheRow(TRUE), CacheRow(b)) : b \in BOOLEAN},
             {Config(TRUE, TRUE, "godaddy_wins")}, {UserId},
             MaxFaults, FALSE)

NextRetry ==
    \/ \E opts \in PlainOptions : SyncAll(opts)
    \/ CmdPerform
    \/ \E r \in Runs :
        \/ CmdStart(r)
        \/ Dispatch(r)
        \/ SyncRead(r)
        \/ EnsureZone(r)
        \/ ApplyRecord(r)
        \/ TouchCache(r)
        \/ Finish(r)
        \/ Stamp(r)
    \/ CmdReturn
    \/ Tick

SpecRetry == InitRetry /\ [][NextRetry]_vars

\* The run of an invocation has ended and its log is completed or partial
EndedWell(c) ==
    /\ c.run \in DOMAIN logs
    /\ Finished(c.run)
    /\ logs[c.run].status \in {"completed", "partial"}

PushReturns == Len(pushed') = Len(pushed) + 1

NewRequests == SubSeq(sent', Len(sent) + 1, Len(sent'))

(* C38: push is total and free of local effects.  Every push_to_godaddy     *)
(* call returns a boolean: false when a request of the registrar client     *)
(* failed and false, without any request, for an operation other than       *)
(* create, update and delete; it makes at most one write request; and it    *)
(* changes no local zone or record, no cache row, no history row and no     *)
(* sync log.                                                                *)
C38_PushTotal ==
    [][PushReturns =>
        LET p == pushed'[Len(pushed')]
            writes == SelectSeq(NewRequests, LAMBDA q : q.method # "GET")
        IN  /\ p.ret \in BOOLEAN
            /\ (\E k \in 1..Len(NewRequests) : NewRequests[k].status # 200)
               => ~p.ret
            /\ p.change.operation \notin {"create", "update", "delete"}
               => ~p.ret /\ NewRequests = <<>>
            /\ ~p.ret => remote' = remote
            /\ Len(writes) <= 1
            /\ UNCHANGED <<zones, records, nextId, history, cache, config,
                           logs>>]_vars

\* A delete was pushed for an enabled domain: one read, one write, true
C38_Witness ==
    /\ Len(pushed) = 1
    /\ pushed[1].change.operation = "delete"
    /\ pushed[1].ret
    /\ Len(sent) = 2
    /\ sent[1].method = "GET" /\ sent[2].method = "PUT"

\* Discovery of domains the account has never seen, followed by batch runs:
\* d1's records decide its classification, no failure
InitFirst ==
    InitWith({OnlyD1(l, <<>>) : l \in ListsUpTo(ClassRemote, MaxBatch)},
             {OnlyD1([zone |-> FALSE, rows |-> <<>>],
                     [zone |-> FALSE, rows |-> <<>>])},
             {<<>>}, {"godaddy_wins"}, 0, FALSE)

NextFirst ==
    \/ Discover /\ classified'.ip = DataA
    \/ \E r \in Runs :
        \/ classified.calls > 0 /\ StartRun(r, NoDomain)
        \/ Dispatch(r)
        \/ SyncRead(r)
        \/ EnsureZone(r)
        \/ ApplyRecord(r)
        \/ TouchCache(r)
        \/ Finish(r)
        \/ Stamp(r)

SpecFirst == InitFirst /\ [][NextFirst]_vars

(* C39: new domains are sync-enabled by default.  A cache row created by a  *)
(* discovery has sync_enabled true whatever its classification, so the      *)
(* batch run that follows lists the domain and, once it has passed over it, *)
(* the domain has a local zone, also when it was classified external_hosted *)
(* or parked.                                                               *)
C39_NewDomainsEnabled ==
    /\ [](/\ \A d \in DOMAIN cache : cache[d].sync_enabled
          /\ \A r \in Runs : \A k \in 1..Len(run[r].done) :
                run[r].done[k].res.errors = <<>>
                => run[r].done[k].domain \in zones)
    /\ [][\A r \in Runs :
            (run[r].pc = "dispatch" /\ run'[r].pc \notin {"dispatch", "raised"})
            => {run'[r].listed[k] : k \in 1..Len(run'[r].listed)}
               = DOMAIN cache]_vars

\* A domain classified external_hosted or parked by its first discovery has
\* been given a local zone by the batch run that followed
C39_Witness ==
    \E d \in DOMAIN cache :
        /\ cache[d].hosting_type \in {"external_hosted", "parked"}
        /\ d \in zones
        /\ run[1].pc = "returned"
        /\ logs[1].status = "completed"
        /\ logs[1].domains_processed = Cardinality(DOMAIN cache)

----------------------------------------------------------------------------
(* A database outage during a sync run *)

\* full_sync while the database is down: the evaluation of the queryset,
\* sync_log.save() or config.save() raises, and in the handler the save of
\* mark_failed raises as well, so the exception leaves full_sync with the
\* log row as it was last saved
Outage(r) ==
    /\ \/ run[r].pc = "dispatch" /\ run[r].arg = NoDomain
       \/ run[r].pc \in {"finish", "stamp"}
    /\ faults > 0
    /\ faults' = faults - 1
    /\ run' = [run EXCEPT ![r] = [@ EXCEPT !.pc = "raised",
                                           !.exc = "database error"]]
    /\ UNCHANGED <<remote, zones, records, nextId, history, cache, config,
                   logs, now, overlap, edge, owner, outer>>

SpecOutage == Init /\ [][Next \/ \E r \in Runs : Outage(r)]_vars

(* C40: no log is left running.  Once a run has returned or raised, its     *)
(* sync log is completed, partial or failed and has completed_at set.       *)
C40_NoLogLeftRunning ==
    \A r \in Runs :
        Finished(r)
        => /\ r \in DOMAIN logs
           /\ logs[r].status \in {"completed", "partial", "failed"}
           /\ logs[r].completed_at # None

====
